---- MODULE Spec2Model ----
(***************************************************************************)
(* A model of the tokenscope token-usage and cost-accounting engine:       *)
(* SubagentAnalyzer, CostCalculator, TokenizerManager, ContextAnalyzer,   *)
(* SkillAnalyzer, ModelResolver, ContentCollector, TokenAnalysisEngine and *)
(* the plugin's execute.                                                   *)
(*                                                                         *)
(* Conventions.  A JavaScript string is a sequence of one-character        *)
(* strings.  An absent / undefined numeric field is the value Missing.     *)
(* Money is counted in millionths of a dollar, so that                     *)
(* (tokens / 1_000_000) * pricePerMillion is the integer tokens * price.   *)
(* Every component has a specification of its own (SpecSubagent, SpecCost, *)
(* SpecTokenizer, SpecContext, SpecSkill, SpecResolver, SpecEngine,        *)
(* SpecPlugin, SpecSchema, SpecCollector, SpecPasses); the variables of    *)
(* the other components stay at their idle values.                         *)
(***************************************************************************)
EXTENDS Integers, Sequences, FiniteSets, TLC

VARIABLES
    \* --- host session store (external collaborator of SubagentAnalyzer)
    sessionChildren,    \* session id -> the list client.session.children returns
    sessionMessages,    \* session id -> the list client.session.messages returns
    lookupFault,        \* the lookup of the store that throws, if one does
    \* --- SubagentAnalyzer.analyzeChildSessions
    stack,              \* activations of analyzeChildSessions, outermost first
    subPc,              \* "run" | "done"
    subResult,          \* the SubagentAnalysis returned for the root
    \* --- CostCalculator
    pricingData,        \* the catalog, as Object.entries lists it
    costInput,          \* the TokenAnalysis handed to calculateCost
    costPc,             \* "idle" | "priced" | "done"
    costPricing,        \* what getPricing returned
    costEstimate,       \* the CostEstimate returned
    mainCost,           \* the headline cost the formatter shows
    \* --- TokenizerManager
    tiktokenCache,      \* model alias -> cached encoder
    transformerCache,   \* hub id -> cached tokenizer, or the null sentinel
    tiktokenModule,     \* the memoized import promise of js-tiktoken
    transformersModule, \* the memoized import promise of @huggingface/transformers
    calls,              \* the countTokens calls: position, arguments, result
    loadStarted,        \* backend key -> encoder loads started for it so far
    loadFailed,         \* backend key -> a load for it has failed
    importStarted,      \* backend -> module imports started so far
    \* --- ContextAnalyzer
    exported,           \* the messages of the ExportedSession
    ctxPc,              \* "idle" | "ready" | "done"
    contextBreakdown,   \* the ContextBreakdown returned
    \* --- SkillAnalyzer
    skillMessages,      \* the transcript handed to getLoadedSkills
    skillPc,            \* "idle" | "ready" | "done"
    loadedSkills,       \* the LoadedSkill list returned
    totalLoadedTokens,  \* the totalTokens returned with it
    \* --- ModelResolver
    resolverMessages,   \* the transcript handed to resolveModelAndProvider
    resolverPc,         \* "idle" | "ready" | "done"
    resolved,           \* the ModelAndProvider returned
    \* --- TokenAnalysisEngine
    engineMessages,     \* the transcript handed to TokenAnalysisEngine.analyze
    engineLimit,        \* its entryLimit
    enginePc,           \* "idle" | "ready" | "done"
    localCategories,    \* the five categories before the telemetry step
    tokenAnalysis,      \* the TokenAnalysis returned
    \* --- TokenAnalyzerPlugin
    pluginPc,           \* position of tokenscope.execute, "returned" or "rejected" at its end
    pluginConfig,       \* whether a session id is there, and the switches of args and config
    pluginFaults,       \* the external lookups that failed during the call
    pluginSections,     \* what each sub-analysis returned
    pluginError,        \* the error execute rejected with
    \* --- ContextAnalyzer.estimateToolSchemas
    schemaExport,       \* the exported session as estimateToolSchemas reads it: the tools map and the tool parts
    schemaPc,           \* "ready" before estimateToolSchemas ran, "done" after
    toolEstimates,      \* result.toolEstimates
    \* --- ContentCollector.collectToolOutputs
    collectorParts,     \* the parts of the transcript's messages, in transcript order
    collectorPc,        \* "ready" before collectToolOutputs ran, "done" after
    collectedOutputs,   \* the entries collectToolOutputs returned
    \* --- TokenAnalysisEngine.analyze (the concurrent passes)
    passSetup,          \* the arguments of analyze and the behaviour of the tokenizer backend, fixed for the call
    passes,             \* each buildCategory pass: its position, the source it is at, its entries, the encoder it holds
    passModule,         \* the memoized module import of the TokenizerManager
    passCache,          \* the TokenizerManager's cache entry for the spec's model or hub
    passCategories      \* the five summaries once Promise.all has resolved

subVars == <<sessionChildren, sessionMessages, lookupFault, stack, subPc, subResult>>
costVars == <<pricingData, costInput, costPc, costPricing, costEstimate, mainCost>>
tokVars == <<tiktokenCache, transformerCache, tiktokenModule, transformersModule,
             calls, loadStarted, loadFailed, importStarted>>
ctxVars == <<exported, ctxPc, contextBreakdown>>
skillVars == <<skillMessages, skillPc, loadedSkills, totalLoadedTokens>>
resolverVars == <<resolverMessages, resolverPc, resolved>>
engineVars == <<engineMessages, engineLimit, enginePc, localCategories, tokenAnalysis>>
pluginVars == <<pluginPc, pluginConfig, pluginFaults, pluginSections, pluginError>>
schemaVars == <<schemaExport, schemaPc, toolEstimates>>
collectorVars == <<collectorParts, collectorPc, collectedOutputs>>
passVars == <<passSetup, passes, passModule, passCache, passCategories>>
vars == <<subVars, costVars, tokVars, ctxVars, skillVars, resolverVars, engineVars, pluginVars, schemaVars, collectorVars, passVars>>

\* a step of one component leaves the other components alone
SubagentOnly == UNCHANGED <<costVars, tokVars, ctxVars, skillVars, resolverVars, engineVars, pluginVars, schemaVars, collectorVars, passVars>>
CostOnly == UNCHANGED <<subVars, tokVars, ctxVars, skillVars, resolverVars, engineVars, pluginVars, schemaVars, collectorVars, passVars>>
TokenizerOnly == UNCHANGED <<subVars, costVars, ctxVars, skillVars, resolverVars, engineVars, pluginVars, schemaVars, collectorVars, passVars>>
ContextOnly == UNCHANGED <<subVars, costVars, tokVars, skillVars, resolverVars, engineVars, pluginVars, schemaVars, collectorVars, passVars>>
SkillOnly == UNCHANGED <<subVars, costVars, tokVars, ctxVars, resolverVars, engineVars, pluginVars, schemaVars, collectorVars, passVars>>
ResolverOnly == UNCHANGED <<subVars, costVars, tokVars, ctxVars, skillVars, engineVars, pluginVars, schemaVars, collectorVars, passVars>>
EngineOnly == UNCHANGED <<subVars, costVars, tokVars, ctxVars, skillVars, resolverVars, pluginVars, schemaVars, collectorVars, passVars>>
PluginOnly == UNCHANGED <<subVars, costVars, tokVars, ctxVars, skillVars, resolverVars, engineVars, schemaVars, collectorVars, passVars>>
SchemaOnly == UNCHANGED <<subVars, costVars, tokVars, ctxVars, skillVars, resolverVars, engineVars, pluginVars, collectorVars, passVars>>
CollectorOnly == UNCHANGED <<subVars, costVars, tokVars, ctxVars, skillVars, resolverVars, engineVars, pluginVars, schemaVars, passVars>>
PassesOnly == UNCHANGED <<subVars, costVars, tokVars, ctxVars, skillVars, resolverVars, engineVars, pluginVars, schemaVars, collectorVars>>

----------------------------------------------------------------------------
(* Bounds of the model *)

NumSessions == 4
MaxDepth == 7
MaxCatalog == 3
NumCalls == 2
MaxExportMsgs == 3
MaxSkillMsgs == 3
MaxResolverMsgs == 3
MaxEngineMsgs == 3
MaxSchemaParts == 2
MaxCollectorParts == 3

----------------------------------------------------------------------------
(* Generic helpers *)

Missing == -1

\* Number(x) || 0
Num(x) == IF x = Missing THEN 0 ELSE x

Max(a, b) == IF a >= b THEN a ELSE b

RECURSIVE SetToSortedSeq(_)
SetToSortedSeq(S) ==
    IF S = {} THEN <<>>
    ELSE LET m == CHOOSE x \in S : \A y \in S : x <= y
         IN <<m>> \o SetToSortedSeq(S \ {m})

UpperToLower == [A |-> "a", B |-> "b", G |-> "g", O |-> "o", P |-> "p", T |-> "t"]

LowerChar(c) == IF c \in DOMAIN UpperToLower THEN UpperToLower[c] ELSE c

\* String.prototype.toLowerCase
ToLowerCase(s) == [i \in 1..Len(s) |-> LowerChar(s[i])]

\* String.prototype.startsWith
StartsWith(s, p) == Len(p) <= Len(s) /\ SubSeq(s, 1, Len(p)) = p

\* String.prototype.includes, for a one-character needle
Includes(s, c) == \E i \in 1..Len(s) : s[i] = c

----------------------------------------------------------------------------
(* CostCalculator *)

Pricing(i, o, cr, cw) == [input |-> i, output |-> o, cacheRead |-> cr, cacheWrite |-> cw]

NameDefault == <<"d", "e", "f", "a", "u", "l", "t">>
NameUnknown == <<"u", "n", "k", "n", "o", "w", "n">>

FallbackPricing == Pricing(1, 3, 0, 0)

\* modelName.split("/").pop(): the text after the last "/"
LastSegment(s) ==
    LET slashes == {i \in 1..Len(s) : s[i] = "/"}
        last == CHOOSE i \in slashes : \A j \in slashes : j <= i
    IN SubSeq(s, last + 1, Len(s))

NormalizeModelName(modelName) ==
    IF Includes(modelName, "/")
    THEN (IF LastSegment(modelName) # <<>> THEN LastSegment(modelName) ELSE modelName)
    ELSE modelName

\* this.pricingData[key], an own-property lookup; <<>> when there is none
CatalogIndex(catalog, key) == {i \in 1..Len(catalog) : catalog[i].key = key}

\* the for..of over Object.entries: the first key that is a prefix wins
FirstPrefixIndex(catalog, lowerModel) ==
    LET hits == {i \in 1..Len(catalog) : StartsWith(lowerModel, ToLowerCase(catalog[i].key))}
    IN IF hits = {} THEN 0 ELSE CHOOSE i \in hits : \A j \in hits : i <= j

GetPricing(catalog, modelName) ==
    LET normalizedName == NormalizeModelName(modelName)
        exact == CatalogIndex(catalog, normalizedName)
        first == FirstPrefixIndex(catalog, ToLowerCase(normalizedName))
        dflt == CatalogIndex(catalog, NameDefault)
    IN IF exact # {} THEN catalog[CHOOSE i \in exact : TRUE].pricing
       ELSE IF first # 0 THEN catalog[first].pricing
       ELSE IF dflt # {} THEN catalog[CHOOSE i \in dflt : TRUE].pricing
       ELSE FallbackPricing

\* (tokens / 1_000_000) * price, in millionths of a dollar
ClassCost(tokens, price) == tokens * price

----------------------------------------------------------------------------
(* SubagentAnalyzer *)

Sessions == 1..NumSessions
Root == 1

Tokens(i, o, r, cr, cw) ==
    [input |-> i, output |-> o, reasoning |-> r, cacheRead |-> cr, cacheWrite |-> cw]

NameGpt4o == <<"g", "p", "t", "-", "4", "o">>

MsgUser ==
    [role |-> "user", hasTokens |-> FALSE, tokens |-> Tokens(0, 0, 0, 0, 0),
     cost |-> Missing, modelID |-> <<>>]
MsgAsstA ==
    [role |-> "assistant", hasTokens |-> TRUE, tokens |-> Tokens(53, 30, 0, 2, 0),
     cost |-> 7500, modelID |-> NameGpt4o]
MsgAsstB ==
    [role |-> "assistant", hasTokens |-> TRUE, tokens |-> Tokens(7, Missing, 3, Missing, 5),
     cost |-> 2500, modelID |-> <<>>]
MsgAsstC ==
    [role |-> "assistant", hasTokens |-> FALSE, tokens |-> Tokens(0, 0, 0, 0, 0),
     cost |-> Missing, modelID |-> <<>>]

\* the transcripts a session of the store may hold
MsgLists == { <<>>, <<MsgUser, MsgAsstC>>, <<MsgAsstB, MsgUser, MsgAsstA>> }

\* the catalog the analyzer's CostCalculator was built with
SubagentCatalog ==
    << [key |-> NameGpt4o, pricing |-> Pricing(5, 15, 1, 6)],
       [key |-> NameDefault, pricing |-> Pricing(1, 3, 0, 0)] >>

\* the accumulation loop of analyzeChildSession over messages[1..n]
RECURSIVE Usage(_, _)
Usage(msgs, n) ==
    IF n = 0
    THEN [inputTokens |-> 0, outputTokens |-> 0, reasoningTokens |-> 0,
          cacheReadTokens |-> 0, cacheWriteTokens |-> 0, apiCost |-> 0,
          assistantMessageCount |-> 0, modelName |-> NameUnknown]
    ELSE LET u == Usage(msgs, n - 1)
             m == msgs[n]
             t == m.tokens
         IN IF m.role # "assistant" THEN u
            ELSE [inputTokens |-> u.inputTokens + (IF m.hasTokens THEN Num(t.input) ELSE 0),
                  outputTokens |-> u.outputTokens + (IF m.hasTokens THEN Num(t.output) ELSE 0),
                  reasoningTokens |-> u.reasoningTokens + (IF m.hasTokens THEN Num(t.reasoning) ELSE 0),
                  cacheReadTokens |-> u.cacheReadTokens + (IF m.hasTokens THEN Num(t.cacheRead) ELSE 0),
                  cacheWriteTokens |-> u.cacheWriteTokens + (IF m.hasTokens THEN Num(t.cacheWrite) ELSE 0),
                  apiCost |-> u.apiCost + Num(m.cost),
                  assistantMessageCount |-> u.assistantMessageCount + 1,
                  modelName |-> IF m.modelID # <<>> THEN m.modelID ELSE u.modelName]

\* analyzeChildSession: <<>> is null, <<summary>> a summary
AnalyzeChildSession(childId, msgs, catalog) ==
    IF msgs = <<>> THEN <<>>
    ELSE LET u == Usage(msgs, Len(msgs))
             pricing == GetPricing(catalog, u.modelName)
         IN << [sessionID |-> childId,
                inputTokens |-> u.inputTokens,
                outputTokens |-> u.outputTokens,
                reasoningTokens |-> u.reasoningTokens,
                cacheReadTokens |-> u.cacheReadTokens,
                cacheWriteTokens |-> u.cacheWriteTokens,
                totalTokens |-> u.inputTokens + u.outputTokens + u.reasoningTokens
                                + u.cacheReadTokens + u.cacheWriteTokens,
                apiCost |-> u.apiCost,
                estimatedCost |-> ClassCost(u.inputTokens, pricing.input)
                                  + ClassCost(u.outputTokens + u.reasoningTokens, pricing.output)
                                  + ClassCost(u.cacheReadTokens, pricing.cacheRead)
                                  + ClassCost(u.cacheWriteTokens, pricing.cacheWrite),
                assistantMessageCount |-> u.assistantMessageCount] >>

EmptyAnalysis ==
    [subagents |-> <<>>, totalInputTokens |-> 0, totalOutputTokens |-> 0,
     totalReasoningTokens |-> 0, totalCacheReadTokens |-> 0, totalCacheWriteTokens |-> 0,
     totalTokens |-> 0, totalApiCost |-> 0, totalEstimatedCost |-> 0, totalApiCalls |-> 0]

\* if (summary) { result.subagents.push(summary); result.total... += summary... }
AddSummary(result, summary) ==
    IF summary = <<>> THEN result
    ELSE LET s == summary[1]
         IN [subagents |-> Append(result.subagents, s),
             totalInputTokens |-> result.totalInputTokens + s.inputTokens,
             totalOutputTokens |-> result.totalOutputTokens + s.outputTokens,
             totalReasoningTokens |-> result.totalReasoningTokens + s.reasoningTokens,
             totalCacheReadTokens |-> result.totalCacheReadTokens + s.cacheReadTokens,
             totalCacheWriteTokens |-> result.totalCacheWriteTokens + s.cacheWriteTokens,
             totalTokens |-> result.totalTokens + s.totalTokens,
             totalApiCost |-> result.totalApiCost + s.apiCost,
             totalEstimatedCost |-> result.totalEstimatedCost + s.estimatedCost,
             totalApiCalls |-> result.totalApiCalls + s.assistantMessageCount]

\* a plausible slip: the nested totals are added but the nested summaries are not listed
MergeNestedTotalsOnly(result, nested) ==
    [result EXCEPT !.totalInputTokens = @ + nested.totalInputTokens,
                   !.totalOutputTokens = @ + nested.totalOutputTokens,
                   !.totalReasoningTokens = @ + nested.totalReasoningTokens,
                   !.totalCacheReadTokens = @ + nested.totalCacheReadTokens,
                   !.totalCacheWriteTokens = @ + nested.totalCacheWriteTokens,
                   !.totalTokens = @ + nested.totalTokens,
                   !.totalApiCost = @ + nested.totalApiCost,
                   !.totalEstimatedCost = @ + nested.totalEstimatedCost,
                   !.totalApiCalls = @ + nested.totalApiCalls]

\* for (const nested of nestedAnalysis.subagents) push; result.total... += nestedAnalysis.total...
MergeNested(result, nested) ==
    [subagents |-> result.subagents \o nested.subagents,
     totalInputTokens |-> result.totalInputTokens + nested.totalInputTokens,
     totalOutputTokens |-> result.totalOutputTokens + nested.totalOutputTokens,
     totalReasoningTokens |-> result.totalReasoningTokens + nested.totalReasoningTokens,
     totalCacheReadTokens |-> result.totalCacheReadTokens + nested.totalCacheReadTokens,
     totalCacheWriteTokens |-> result.totalCacheWriteTokens + nested.totalCacheWriteTokens,
     totalTokens |-> result.totalTokens + nested.totalTokens,
     totalApiCost |-> result.totalApiCost + nested.totalApiCost,
     totalEstimatedCost |-> result.totalEstimatedCost + nested.totalEstimatedCost,
     totalApiCalls |-> result.totalApiCalls + nested.totalApiCalls]

\* one activation of analyzeChildSessions(id)
Frame(id) == [id |-> id, phase |-> "fetch", children |-> <<>>, idx |-> 1, result |-> EmptyAnalysis]

Top == stack[Len(stack)]

\* the lists the host store can return: a forest in which every session but
\* the root names at most one parent (parent[s] = 0: none), and at most one
\* further edge back[1] -> back[2], which makes the store's answer cyclic or
\* lists one session under two parents
ChildrenOf(parent, back, s) ==
    SetToSortedSeq({c \in Sessions \ {Root} : parent[c] = s}
                   \cup (IF back # <<>> /\ back[1] = s THEN {back[2]} ELSE {}))

\* client.session.children / client.session.messages of one session throws
NoFault == [kind |-> "none", id |-> Root]

LookupFaults ==
    {NoFault} \cup {[kind |-> kind, id |-> id] :
                       kind \in {"children", "messages"}, id \in Sessions \ {Root}}

\* a plausible slip: a child whose children lookup fails loses its own summary too
SummaryUnlessAnyFault(child, fault) ==
    IF fault.kind # "none" /\ fault.id = child THEN <<>>
    ELSE AnalyzeChildSession(child, sessionMessages[child], SubagentCatalog)

\* await this.analyzeChildSession(child): the catch returns null
SummaryOrNull(child, fault) ==
    IF fault.kind = "messages" /\ fault.id = child THEN <<>>
    ELSE AnalyzeChildSession(child, sessionMessages[child], SubagentCatalog)

\* the children the activation for id loops over: none when the lookup
\* throws, since the catch leaves the empty result to be returned
ChildrenOrCaught(id, fault) ==
    IF fault.kind = "children" /\ fault.id = id THEN <<>> ELSE sessionChildren[id]

SubagentIdle ==
    /\ sessionChildren = [s \in Sessions |-> <<>>]
    /\ sessionMessages = [s \in Sessions |-> <<>>]
    /\ lookupFault = NoFault
    /\ stack = <<>>
    /\ subPc = "idle"
    /\ subResult = EmptyAnalysis

InitSubagent ==
    /\ \E parent \in [Sessions \ {Root} -> 0..NumSessions] :
       \E back \in {<<>>} \cup {<<a, b>> : a \in Sessions, b \in Sessions} :
          /\ \A c \in Sessions \ {Root} : parent[c] < c
          /\ back # <<>> => back[2] <= back[1]
          /\ sessionChildren = [s \in Sessions |-> ChildrenOf(parent, back, s)]
    /\ sessionMessages \in [Sessions -> MsgLists]
    /\ sessionMessages[Root] = <<MsgUser, MsgAsstC>>
    /\ lookupFault \in LookupFaults
    /\ stack = <<Frame(Root)>>
    /\ subPc = "run"
    /\ subResult = EmptyAnalysis

\* const children = await this.client.session.children(...); an empty list
\* returns at once, and so does a lookup that throws
FetchChildren ==
    /\ subPc = "run"
    /\ Top.phase = "fetch"
    /\ stack' = [stack EXCEPT ![Len(stack)] =
                    [@ EXCEPT !.phase = "loop",
                              !.children = ChildrenOrCaught(Top.id, lookupFault)]]
    /\ UNCHANGED <<sessionChildren, sessionMessages, lookupFault, subPc, subResult>>
    /\ SubagentOnly

\* one pass of the for loop up to the recursive call: the child's own summary
\* is added, then analyzeChildSessions(child.id) is entered
VisitChild ==
    /\ subPc = "run"
    /\ Top.phase = "loop"
    /\ Top.idx <= Len(Top.children)
    /\ Len(stack) < MaxDepth
    /\ LET child == Top.children[Top.idx]
           summary == SummaryOrNull(child, lookupFault)
       IN stack' = Append([stack EXCEPT ![Len(stack)] =
                              [@ EXCEPT !.result = AddSummary(@, summary)]],
                          Frame(child))
    /\ UNCHANGED <<sessionChildren, sessionMessages, lookupFault, subPc, subResult>>
    /\ SubagentOnly

\* the recursive call returns: its list and totals are merged into the caller's
ReturnNested ==
    /\ subPc = "run"
    /\ Top.phase = "loop"
    /\ Top.idx > Len(Top.children)
    /\ Len(stack) > 1
    /\ stack' = [SubSeq(stack, 1, Len(stack) - 1) EXCEPT ![Len(stack) - 1] =
                    [@ EXCEPT !.result = MergeNested(@, Top.result), !.idx = @ + 1]]
    /\ UNCHANGED <<sessionChildren, sessionMessages, lookupFault, subPc, subResult>>
    /\ SubagentOnly

\* the outermost call returns result
FinishRoot ==
    /\ subPc = "run"
    /\ Top.phase = "loop"
    /\ Top.idx > Len(Top.children)
    /\ Len(stack) = 1
    /\ subResult' = Top.result
    /\ subPc' = "done"
    /\ stack' = <<>>
    /\ UNCHANGED <<sessionChildren, sessionMessages, lookupFault>>
    /\ SubagentOnly


----------------------------------------------------------------------------
(* CostCalculator.calculateCost and the formatter's headline cost *)

\* a plausible slip: reasoning tokens are left out of the output class
CalculateCostNoReasoning(catalog, analysis) ==
    LET pricing == GetPricing(catalog, analysis.name)
        hasActivity == analysis.assistantMessageCount > 0
                       /\ (analysis.inputTokens > 0 \/ analysis.outputTokens > 0)
        estimatedInputCost == ClassCost(analysis.inputTokens, pricing.input)
        estimatedOutputCost == ClassCost(analysis.outputTokens, pricing.output)
        estimatedCacheReadCost == ClassCost(analysis.cacheReadTokens, pricing.cacheRead)
        estimatedCacheWriteCost == ClassCost(analysis.cacheWriteTokens, pricing.cacheWrite)
    IN [isSubscription |-> hasActivity /\ analysis.sessionCost = 0,
        apiSessionCost |-> analysis.sessionCost,
        estimatedSessionCost |-> estimatedInputCost + estimatedOutputCost
                                 + estimatedCacheReadCost + estimatedCacheWriteCost,
        estimatedInputCost |-> estimatedInputCost,
        estimatedOutputCost |-> estimatedOutputCost,
        estimatedCacheReadCost |-> estimatedCacheReadCost,
        estimatedCacheWriteCost |-> estimatedCacheWriteCost,
        pricePerMillionInput |-> pricing.input,
        pricePerMillionOutput |-> pricing.output,
        pricePerMillionCacheRead |-> pricing.cacheRead,
        pricePerMillionCacheWrite |-> pricing.cacheWrite]

\* a plausible slip: a session with no assistant turn counts as active
CalculateCostNoTurns(catalog, analysis) ==
    LET pricing == GetPricing(catalog, analysis.name)
        hasActivity == analysis.inputTokens > 0 \/ analysis.outputTokens > 0
        estimatedInputCost == ClassCost(analysis.inputTokens, pricing.input)
        estimatedOutputCost ==
            ClassCost(analysis.outputTokens + analysis.reasoningTokens, pricing.output)
        estimatedCacheReadCost == ClassCost(analysis.cacheReadTokens, pricing.cacheRead)
        estimatedCacheWriteCost == ClassCost(analysis.cacheWriteTokens, pricing.cacheWrite)
    IN [isSubscription |-> hasActivity /\ analysis.sessionCost = 0,
        apiSessionCost |-> analysis.sessionCost,
        estimatedSessionCost |-> estimatedInputCost + estimatedOutputCost
                                 + estimatedCacheReadCost + estimatedCacheWriteCost,
        estimatedInputCost |-> estimatedInputCost,
        estimatedOutputCost |-> estimatedOutputCost,
        estimatedCacheReadCost |-> estimatedCacheReadCost,
        estimatedCacheWriteCost |-> estimatedCacheWriteCost,
        pricePerMillionInput |-> pricing.input,
        pricePerMillionOutput |-> pricing.output,
        pricePerMillionCacheRead |-> pricing.cacheRead,
        pricePerMillionCacheWrite |-> pricing.cacheWrite]

CalculateCost(catalog, analysis) ==
    LET pricing == GetPricing(catalog, analysis.name)
        hasActivity == analysis.assistantMessageCount > 0
                       /\ (analysis.inputTokens > 0 \/ analysis.outputTokens > 0)
        estimatedInputCost == ClassCost(analysis.inputTokens, pricing.input)
        estimatedOutputCost ==
            ClassCost(analysis.outputTokens + analysis.reasoningTokens, pricing.output)
        estimatedCacheReadCost == ClassCost(analysis.cacheReadTokens, pricing.cacheRead)
        estimatedCacheWriteCost == ClassCost(analysis.cacheWriteTokens, pricing.cacheWrite)
    IN [isSubscription |-> hasActivity /\ analysis.sessionCost = 0,
        apiSessionCost |-> analysis.sessionCost,
        estimatedSessionCost |-> estimatedInputCost + estimatedOutputCost
                                 + estimatedCacheReadCost + estimatedCacheWriteCost,
        estimatedInputCost |-> estimatedInputCost,
        estimatedOutputCost |-> estimatedOutputCost,
        estimatedCacheReadCost |-> estimatedCacheReadCost,
        estimatedCacheWriteCost |-> estimatedCacheWriteCost,
        pricePerMillionInput |-> pricing.input,
        pricePerMillionOutput |-> pricing.output,
        pricePerMillionCacheRead |-> pricing.cacheRead,
        pricePerMillionCacheWrite |-> pricing.cacheWrite]

\* const mainCost = cost.isSubscription ? cost.estimatedSessionCost : cost.apiSessionCost
MainCost(cost) == IF cost.isSubscription THEN cost.estimatedSessionCost ELSE cost.apiSessionCost

NameO1 == <<"o", "1">>
NameO1Pro == <<"o", "1", "-", "p", "r", "o">>
NameUpperO3 == <<"O", "3">>

\* the keys a catalog may hold, each with a pricing record of its own
KeyPool ==
    { [key |-> NameO1, pricing |-> Pricing(15, 60, 7, 0)],
      [key |-> NameO1Pro, pricing |-> Pricing(150, 600, 0, 0)],
      [key |-> NameUpperO3, pricing |-> Pricing(2, 8, 1, 0)],
      [key |-> NameDefault, pricing |-> Pricing(1, 3, 0, 0)] }

\* a catalog lists distinct keys, in the order Object.entries gives them
Catalogs ==
    UNION {{c \in [1..n -> KeyPool] : \A i, j \in 1..n : i # j => c[i] # c[j]} : n \in 0..MaxCatalog}

ModelNames ==
    { NameO1,
      <<"o", "1", "-", "p", "r", "o", "-", "x">>,
      <<"v", "/", "o", "1", "-", "p", "r", "o", "-", "x">>,
      <<"O", "1", "-", "P", "R", "O">>,
      <<"o", "3", "-", "m">>,
      <<"z", "z">>,
      <<"v", "/", "d", "e", "f", "a", "u", "l", "t">> }

NoEstimate == CalculateCost(<<>>, [name |-> <<>>, assistantMessageCount |-> 0,
                  inputTokens |-> 0, outputTokens |-> 0, reasoningTokens |-> 0,
                  cacheReadTokens |-> 0, cacheWriteTokens |-> 0, sessionCost |-> 0])

InitCost ==
    /\ pricingData \in Catalogs
    /\ costInput \in [name : ModelNames, assistantMessageCount : {0, 2},
                      inputTokens : {0, 1000}, outputTokens : {0, 500},
                      reasoningTokens : {0, 200}, cacheReadTokens : {0, 300},
                      cacheWriteTokens : {0, 50}, sessionCost : {0, 1234}]
    /\ costPc = "idle"
    /\ costPricing = FallbackPricing
    /\ costEstimate = NoEstimate
    /\ mainCost = 0

\* costCalculator.getPricing(tokenModel.name)
GetPricingCall ==
    /\ costPc = "idle"
    /\ costPricing' = GetPricing(pricingData, costInput.name)
    /\ costPc' = "priced"
    /\ UNCHANGED <<pricingData, costInput, costEstimate, mainCost>>
    /\ CostOnly

\* costCalculator.calculateCost(analysis)
CalculateCostCall ==
    /\ costPc = "priced"
    /\ costEstimate' = CalculateCost(pricingData, costInput)
    /\ costPc' = "costed"
    /\ UNCHANGED <<pricingData, costInput, costPricing, mainCost>>
    /\ CostOnly

\* formatVisualOutput picks the headline cost
FormatHeadline ==
    /\ costPc = "costed"
    /\ mainCost' = MainCost(costEstimate)
    /\ costPc' = "done"
    /\ UNCHANGED <<pricingData, costInput, costPricing, costEstimate>>
    /\ CostOnly


----------------------------------------------------------------------------
(* TokenizerManager *)

Calls == 1..NumCalls

TiktokenModels == {"gpt-4o", "gpt-4"}
TransformerHubs == {"Xenova/claude-tokenizer", "Xenova/llama3-tokenizer-new"}
BackendKeys == TiktokenModels \cup TransformerHubs

\* TokenModel.spec: {kind: "approx"} | {kind: "tiktoken", model} | {kind: "transformers", hub}
TokenModels ==
    {[kind |-> "approx", key |-> "none"]}
    \cup {[kind |-> "tiktoken", key |-> k] : k \in TiktokenModels}
    \cup {[kind |-> "transformers", key |-> k] : k \in TransformerHubs}

Contents ==
    { <<>>, <<" ", " ">>, <<"a", "b", "c", "d", "e">>, <<" ", "a", " ", "b", "c", "d", "e", "f", " ">> }

\* content.length === 0
IsEmpty(content) == content = <<>>

\* !content.trim(): nothing but whitespace
IsBlank(content) == \A i \in 1..Len(content) : content[i] = " "

\* Math.ceil(length / 4)
CeilQuarter(n) == (n + 3) \div 4

\* Math.floor(content.length / 4)
FloorQuarterCount(content) == Len(content) \div 4

\* Math.ceil(content.length / 4)
ApproximateTokenCount(content) == CeilQuarter(Len(content))

\* what a working encoder returns for the content: one token per character
\* that is not a space (any count that differs from the approximation serves)
EncodedLength(content) == Cardinality({i \in 1..Len(content) : content[i] # " "})

IdleCall ==
    [pc |-> "idle", content |-> <<>>, kind |-> "approx", key |-> "none", result |-> Missing,
     holds |-> "none", attempted |-> FALSE, degraded |-> FALSE, lateStart |-> FALSE]

TokenizerIdle ==
    /\ tiktokenCache = [k \in TiktokenModels |-> "absent"]
    /\ transformerCache = [k \in TransformerHubs |-> "absent"]
    /\ tiktokenModule = "unset"
    /\ transformersModule = "unset"
    /\ calls = [c \in Calls |-> IdleCall]
    /\ loadStarted = [k \in BackendKeys |-> 0]
    /\ loadFailed = [k \in BackendKeys |-> FALSE]
    /\ importStarted = [b \in {"tiktoken", "transformers"} |-> 0]

InitTokenizer == TokenizerIdle

Finish(c, value, isDegraded) ==
    [calls EXCEPT ![c].pc = "done", ![c].result = value,
                  ![c].degraded = calls[c].degraded \/ isDegraded]

\* countTokens up to its first await: the blank check, the approx branch, and
\* for an exact backend the cache lookup of loadTiktokenEncoder or
\* loadTransformersTokenizer and the memoized module import
StartCall(c, content, model) ==
    /\ calls[c].pc = "idle"
    /\ LET begun == [calls[c] EXCEPT !.content = content, !.kind = model.kind,
                                     !.key = model.key,
                                     !.lateStart = (model.kind # "approx" /\ loadFailed[model.key])]
       IN IF IsBlank(content)
          THEN /\ calls' = [calls EXCEPT ![c] = [begun EXCEPT !.pc = "done", !.result = 0]]
               /\ UNCHANGED <<tiktokenModule, transformersModule, importStarted>>
          ELSE IF model.kind = "approx"
          THEN /\ calls' = [calls EXCEPT ![c] =
                              [begun EXCEPT !.pc = "done", !.result = ApproximateTokenCount(content)]]
               /\ UNCHANGED <<tiktokenModule, transformersModule, importStarted>>
          ELSE IF model.kind = "tiktoken"
          THEN IF tiktokenCache[model.key] # "absent"
               THEN /\ calls' = [calls EXCEPT ![c] =
                                   [begun EXCEPT !.pc = "encode", !.holds = tiktokenCache[model.key]]]
                    /\ UNCHANGED <<tiktokenModule, transformersModule, importStarted>>
               ELSE /\ calls' = [calls EXCEPT ![c] =
                                   [begun EXCEPT !.pc = "awaitModule",
                                                 !.attempted = (tiktokenModule = "unset")]]
                    /\ tiktokenModule' = IF tiktokenModule = "unset" THEN "pending" ELSE tiktokenModule
                    /\ importStarted' = IF tiktokenModule = "unset"
                                        THEN [importStarted EXCEPT !["tiktoken"] = @ + 1]
                                        ELSE importStarted
                    /\ UNCHANGED transformersModule
          ELSE IF transformerCache[model.key] # "absent"
               THEN /\ calls' = [calls EXCEPT ![c] =
                                   [begun EXCEPT !.pc = "encode", !.holds = transformerCache[model.key]]]
                    /\ UNCHANGED <<tiktokenModule, transformersModule, importStarted>>
               ELSE /\ calls' = [calls EXCEPT ![c] =
                                   [begun EXCEPT !.pc = "awaitModule",
                                                 !.attempted = (transformersModule = "unset")]]
                    /\ transformersModule' =
                          IF transformersModule = "unset" THEN "pending" ELSE transformersModule
                    /\ importStarted' = IF transformersModule = "unset"
                                        THEN [importStarted EXCEPT !["transformers"] = @ + 1]
                                        ELSE importStarted
                    /\ UNCHANGED tiktokenModule
    /\ UNCHANGED <<tiktokenCache, transformerCache, loadStarted, loadFailed>>
    /\ TokenizerOnly

\* importFromVendor settles: the vendored package is there or it is missing;
\* a js-tiktoken build may also lack getEncoding
ModuleSettles(b) ==
    /\ IF b = "tiktoken"
       THEN /\ tiktokenModule = "pending"
            /\ tiktokenModule' \in {"resolved", "noGetEncoding", "rejected"}
            /\ UNCHANGED transformersModule
       ELSE /\ transformersModule = "pending"
            /\ transformersModule' \in {"resolved", "rejected"}
            /\ UNCHANGED tiktokenModule
    /\ UNCHANGED <<tiktokenCache, transformerCache, calls, loadStarted, loadFailed, importStarted>>
    /\ TokenizerOnly

\* loadTiktokenEncoder after `await this.loadTiktokenModule()`
TiktokenAfterModule(c) ==
    /\ calls[c].pc = "awaitModule"
    /\ calls[c].kind = "tiktoken"
    /\ tiktokenModule \in {"resolved", "noGetEncoding", "rejected"}
    /\ LET k == calls[c].key
       IN \/ /\ tiktokenModule = "rejected"
             \* the import error reaches the catch of countTokens
             /\ calls' = Finish(c, ApproximateTokenCount(calls[c].content), TRUE)
             /\ loadFailed' = [loadFailed EXCEPT ![k] = TRUE]
             /\ UNCHANGED <<tiktokenCache, loadStarted>>
          \/ /\ tiktokenModule = "noGetEncoding"
             \* the length-based stand-in encoder is returned, and not cached
             /\ calls' = [calls EXCEPT ![c].pc = "encode", ![c].holds = "fallback",
                                       ![c].degraded = TRUE]
             /\ UNCHANGED <<tiktokenCache, loadStarted, loadFailed>>
          \/ /\ tiktokenModule = "resolved"
             \* encodingForModel(model), or getEncoding("cl100k_base") when it throws
             /\ calls' = [calls EXCEPT ![c].pc = "encode", ![c].holds = "encoder",
                                       ![c].attempted = TRUE]
             /\ tiktokenCache' = [tiktokenCache EXCEPT ![k] = "encoder"]
             /\ loadStarted' = [loadStarted EXCEPT ![k] = @ + 1]
             /\ UNCHANGED loadFailed
          \/ /\ tiktokenModule = "resolved"
             \* both constructors throw: nothing is cached, countTokens catches
             /\ calls' = [Finish(c, ApproximateTokenCount(calls[c].content), TRUE)
                             EXCEPT ![c].attempted = TRUE]
             /\ loadStarted' = [loadStarted EXCEPT ![k] = @ + 1]
             /\ loadFailed' = [loadFailed EXCEPT ![k] = TRUE]
             /\ UNCHANGED tiktokenCache
    /\ UNCHANGED <<transformerCache, tiktokenModule, transformersModule, importStarted>>
    /\ TokenizerOnly

\* countWithTiktoken: return encoder.encode(content).length, approximating on a throw
TiktokenEncode(c) ==
    /\ calls[c].pc = "encode"
    /\ calls[c].kind = "tiktoken"
    /\ LET content == calls[c].content
       IN IF calls[c].holds = "fallback"
          THEN calls' = Finish(c, ApproximateTokenCount(content), FALSE)
          ELSE \/ calls' = Finish(c, EncodedLength(content), FALSE)
               \* encode throws, or returns undefined / null: .length throws
               \/ calls' = Finish(c, ApproximateTokenCount(content), TRUE)
               \* encode returns a value that has no length: undefined is returned
               \/ calls' = Finish(c, Missing, TRUE)
    /\ UNCHANGED <<tiktokenCache, transformerCache, tiktokenModule, transformersModule,
                   loadStarted, loadFailed, importStarted>>
    /\ TokenizerOnly

\* loadTransformersTokenizer after `await this.loadTransformersModule()`
TransformersAfterModule(c) ==
    /\ calls[c].pc = "awaitModule"
    /\ calls[c].kind = "transformers"
    /\ transformersModule \in {"resolved", "rejected"}
    /\ LET k == calls[c].key
       IN IF transformersModule = "rejected"
          THEN /\ calls' = [calls EXCEPT ![c].pc = "encode", ![c].holds = "null",
                                         ![c].degraded = TRUE]
               /\ transformerCache' = [transformerCache EXCEPT ![k] = "null"]
               /\ loadFailed' = [loadFailed EXCEPT ![k] = TRUE]
               /\ UNCHANGED loadStarted
          ELSE \* AutoTokenizer.from_pretrained(hub) is started
               /\ calls' = [calls EXCEPT ![c].pc = "awaitLoad", ![c].attempted = TRUE]
               /\ loadStarted' = [loadStarted EXCEPT ![k] = @ + 1]
               /\ UNCHANGED <<transformerCache, loadFailed>>
    /\ UNCHANGED <<tiktokenCache, tiktokenModule, transformersModule, importStarted>>
    /\ TokenizerOnly

\* from_pretrained settles: a tokenizer, an object without encode, or a rejection
TransformersLoadSettles(c) ==
    /\ calls[c].pc = "awaitLoad"
    /\ LET k == calls[c].key
       IN \/ /\ calls' = [calls EXCEPT ![c].pc = "encode", ![c].holds = "tokenizer"]
             /\ transformerCache' = [transformerCache EXCEPT ![k] = "tokenizer"]
             /\ UNCHANGED loadFailed
          \/ /\ calls' = [calls EXCEPT ![c].pc = "encode", ![c].holds = "noEncode",
                                       ![c].degraded = TRUE]
             /\ transformerCache' = [transformerCache EXCEPT ![k] = "noEncode"]
             /\ UNCHANGED loadFailed
          \/ /\ calls' = [calls EXCEPT ![c].pc = "encode", ![c].holds = "null",
                                       ![c].degraded = TRUE]
             /\ transformerCache' = [transformerCache EXCEPT ![k] = "null"]
             /\ loadFailed' = [loadFailed EXCEPT ![k] = TRUE]
    /\ UNCHANGED <<tiktokenCache, tiktokenModule, transformersModule, loadStarted, importStarted>>
    /\ TokenizerOnly

\* countWithTransformers after the tokenizer was obtained
TransformersEncode(c) ==
    /\ calls[c].pc = "encode"
    /\ calls[c].kind = "transformers"
    /\ LET content == calls[c].content
       IN IF calls[c].holds \in {"null", "noEncode"}
          THEN calls' = Finish(c, ApproximateTokenCount(content), TRUE)
          ELSE \/ calls' = Finish(c, EncodedLength(content), FALSE)
               \* encode throws, or its result has no length
               \/ calls' = Finish(c, ApproximateTokenCount(content), TRUE)
    /\ UNCHANGED <<tiktokenCache, transformerCache, tiktokenModule, transformersModule,
                   loadStarted, loadFailed, importStarted>>
    /\ TokenizerOnly

----------------------------------------------------------------------------
(* ContextAnalyzer.analyzeContextBreakdown *)

PerToolTokens == 350
EnvironmentTokens == 150
ProjectTreeTokens == 500
SubstantialLength == 500

\* A system prompt is a sequence of chunks of text; ChunkLength is the number
\* of characters of each.  "text" and "longtext" are prose without markers.
ChunkLength ==
    [you_are |-> 11, env_open |-> 5, env_close |-> 6, files_open |-> 7, files_close |-> 8,
     funcs_open |-> 11, funcs_close |-> 12, function |-> 10, instr |-> 30, schema |-> 16,
     text |-> 41, longtext |-> 601]

RECURSIVE TextLength(_)
TextLength(chunks) ==
    IF chunks = <<>> THEN 0 ELSE ChunkLength[Head(chunks)] + TextLength(Tail(chunks))

\* tokenizerManager.countTokens(text, tokenModel) under the approx spec
ChunkTokens(chunks) == CeilQuarter(TextLength(chunks))

Has(chunks, c) == \E i \in 1..Len(chunks) : chunks[i] = c

\* prompt.match(/<open>[\s\S]*?<\/close>/i): from the first opening tag to the
\* first closing tag after it; <<>> when there is no match
TagMatch(chunks, open, close) ==
    LET opens == {i \in 1..Len(chunks) : chunks[i] = open
                                          /\ \E j \in (i + 1)..Len(chunks) : chunks[j] = close}
    IN IF opens = {} THEN <<>>
       ELSE LET i == CHOOSE x \in opens : \A y \in opens : x <= y
                closes == {j \in (i + 1)..Len(chunks) : chunks[j] = close}
                j == CHOOSE x \in closes : \A y \in closes : x <= y
            IN SubSeq(chunks, i, j)

\* one match of /Instructions from:[\s\S]*?(?=Instructions from:|<env>|<files>|$)/gi,
\* starting at chunk i
InstructionSpan(chunks, i) ==
    LET stops == {j \in (i + 1)..Len(chunks) : chunks[j] \in {"instr", "env_open", "files_open"}}
        stop == IF stops = {} THEN Len(chunks) + 1
                ELSE CHOOSE x \in stops : \A y \in stops : x <= y
    IN SubSeq(chunks, i, stop - 1)

RECURSIVE SumInstructionTokens(_, _)
SumInstructionTokens(chunks, i) ==
    IF i > Len(chunks) THEN 0
    ELSE (IF chunks[i] = "instr" THEN ChunkTokens(InstructionSpan(chunks, i)) ELSE 0)
         + SumInstructionTokens(chunks, i + 1)

EmptyBreakdown ==
    [baseSystemPrompt |-> [tokens |-> 0, identified |-> FALSE],
     toolDefinitions |-> [tokens |-> 0, identified |-> FALSE, toolCount |-> 0],
     environmentContext |-> [tokens |-> 0, identified |-> FALSE],
     projectTree |-> [tokens |-> 0, identified |-> FALSE],
     customInstructions |-> [tokens |-> 0, identified |-> FALSE],
     totalCachedContext |-> 0]

\* the body of the for loop of analyzeSystemPromptContent for one prompt
AnalyzePrompt(b, prompt) ==
    LET tokens == ChunkTokens(prompt)
        envMatch == TagMatch(prompt, "env_open", "env_close")
        filesMatch == TagMatch(prompt, "files_open", "files_close")
        functionsMatch == TagMatch(prompt, "funcs_open", "funcs_close")
        noTags == ~Has(prompt, "env_open") /\ ~Has(prompt, "files_open")
                  /\ ~Has(prompt, "funcs_open")
        env == IF envMatch # <<>>
               THEN [tokens |-> b.environmentContext.tokens + ChunkTokens(envMatch),
                     identified |-> TRUE]
               ELSE b.environmentContext
        tree == IF filesMatch # <<>>
                THEN [tokens |-> b.projectTree.tokens + ChunkTokens(filesMatch),
                      identified |-> TRUE]
                ELSE b.projectTree
        custom == IF Has(prompt, "instr")
                  THEN [tokens |-> b.customInstructions.tokens + SumInstructionTokens(prompt, 1),
                        identified |-> TRUE]
                  ELSE b.customInstructions
        tools == IF Has(prompt, "funcs_open") \/ Has(prompt, "schema")
                 THEN IF functionsMatch # <<>>
                      THEN [tokens |-> b.toolDefinitions.tokens + ChunkTokens(functionsMatch),
                            identified |-> TRUE,
                            toolCount |-> b.toolDefinitions.toolCount
                                + Cardinality({i \in 1..Len(functionsMatch) :
                                                  functionsMatch[i] = "function"})]
                      ELSE [tokens |-> b.toolDefinitions.tokens + tokens,
                            identified |-> TRUE,
                            toolCount |-> b.toolDefinitions.toolCount]
                 ELSE b.toolDefinitions
        base == IF Has(prompt, "you_are") /\ noTags
                THEN [tokens |-> b.baseSystemPrompt.tokens + tokens, identified |-> TRUE]
                ELSE IF TextLength(prompt) > SubstantialLength /\ noTags /\ ~Has(prompt, "instr")
                THEN [b.baseSystemPrompt EXCEPT !.tokens = @ + tokens]
                ELSE b.baseSystemPrompt
    IN [baseSystemPrompt |-> base, toolDefinitions |-> tools, environmentContext |-> env,
        projectTree |-> tree, customInstructions |-> custom,
        totalCachedContext |-> b.totalCachedContext]

RECURSIVE AnalyzePrompts(_, _)
AnalyzePrompts(b, prompts) ==
    IF prompts = <<>> THEN b ELSE AnalyzePrompts(AnalyzePrompt(b, Head(prompts)), Tail(prompts))

\* analyzeSystemPromptContent: the loop, then totalCachedContext = the sum of the buckets
AnalyzeSystemPromptContent(prompts, breakdown) ==
    LET b == AnalyzePrompts(breakdown, prompts)
    IN [b EXCEPT !.totalCachedContext =
            b.baseSystemPrompt.tokens + b.toolDefinitions.tokens + b.environmentContext.tokens
            + b.projectTree.tokens + b.customInstructions.tokens]

\* extractSystemPrompts: the prompts of the assistant messages, each once, in
\* the order a Set keeps them
RECURSIVE AddAll(_, _)
AddAll(acc, prompts) ==
    IF prompts = <<>> THEN acc
    ELSE AddAll(IF \E i \in 1..Len(acc) : acc[i] = Head(prompts) THEN acc
                ELSE Append(acc, Head(prompts)),
                Tail(prompts))

RECURSIVE ExtractSystemPrompts(_, _)
ExtractSystemPrompts(messages, n) ==
    IF n = 0 THEN <<>>
    ELSE LET acc == ExtractSystemPrompts(messages, n - 1)
         IN IF messages[n].role = "assistant" THEN AddAll(acc, messages[n].system) ELSE acc

\* extractEnabledTools: the names of the tools maps of all messages, or, when
\* there is none, the names of the tools the parts call
ExtractEnabledTools(messages) ==
    LET mapped == UNION {DOMAIN messages[i].tools : i \in 1..Len(messages)}
        called == UNION {{messages[i].parts[j] : j \in 1..Len(messages[i].parts)} :
                            i \in 1..Len(messages)}
    IN IF mapped # {} THEN mapped ELSE called

\* the last assistant message whose cache.write is truthy
LastCacheWrite(messages) ==
    LET hits == {i \in 1..Len(messages) :
                    messages[i].role = "assistant" /\ Num(messages[i].cacheWrite) # 0}
    IN IF hits = {} THEN 0
       ELSE messages[CHOOSE i \in hits : \A j \in hits : i >= j].cacheWrite

\* the first assistant message whose cache.write is truthy
FirstCacheWrite(messages) ==
    LET hits == {i \in 1..Len(messages) :
                    messages[i].role = "assistant" /\ Num(messages[i].cacheWrite) # 0}
    IN IF hits = {} THEN 0
       ELSE messages[CHOOSE i \in hits : \A j \in hits : i <= j].cacheWrite

EstimateContextFromCacheTokens(messages, breakdown) ==
    LET totalCachedTokens == FirstCacheWrite(messages)
        enabledToolCount == Cardinality(ExtractEnabledTools(messages))
        estimatedToolTokens == enabledToolCount * PerToolTokens
        remainingTokens == totalCachedTokens - estimatedToolTokens
                           - EnvironmentTokens - ProjectTreeTokens
    IN IF totalCachedTokens = 0 THEN breakdown
       ELSE [baseSystemPrompt |-> [tokens |-> Max(0, remainingTokens), identified |-> FALSE],
             toolDefinitions |-> [tokens |-> estimatedToolTokens, identified |-> FALSE,
                                  toolCount |-> enabledToolCount],
             environmentContext |-> [tokens |-> EnvironmentTokens, identified |-> FALSE],
             projectTree |-> [tokens |-> ProjectTreeTokens, identified |-> FALSE],
             customInstructions |-> breakdown.customInstructions,
             totalCachedContext |-> totalCachedTokens]

AnalyzeContextBreakdown(messages) ==
    LET systemPrompts == ExtractSystemPrompts(messages, Len(messages))
    IN IF Len(systemPrompts) > 0
       THEN AnalyzeSystemPromptContent(systemPrompts, EmptyBreakdown)
       ELSE EstimateContextFromCacheTokens(messages, EmptyBreakdown)

NoTools == [n \in {} |-> TRUE]
TenTools == [n \in {"t1", "t2", "t3", "t4", "t5", "t6", "t7", "t8", "t9", "t10"} |-> TRUE]
TwoToolsOneOff == [n \in {"bash", "read"} |-> n = "bash"]

ExportedMsg(role, cacheWrite, tools, parts, system) ==
    [role |-> role, cacheWrite |-> cacheWrite, tools |-> tools, parts |-> parts,
     system |-> system]

SystemChoices ==
    { <<<<"you_are", "text">>>>,
      <<<<"you_are", "env_open", "text", "env_close", "files_open", "text", "files_close">>,
        <<"text">>>>,
      <<<<"longtext">>, <<"env_open", "text">>>>,
      <<<<"instr", "text", "instr", "text", "env_open", "text", "env_close">>,
        <<"funcs_open", "function", "text", "function", "funcs_close">>>>,
      <<<<"schema", "text">>, <<"you_are", "text">>>> }

\* the messages an export may hold
ExportedPool ==
    {ExportedMsg("user", Missing, t, <<>>, <<>>) : t \in {NoTools, TenTools, TwoToolsOneOff}}
    \cup {ExportedMsg("user", 700, NoTools, <<>>, <<>>)}
    \cup {ExportedMsg("assistant", w, NoTools, p, <<>>) :
             w \in {Missing, 0, 100, 5000}, p \in {<<>>, <<"bash", "grep", "bash">>}}
    \cup {ExportedMsg("assistant", 5000, NoTools, <<>>, sys) : sys \in SystemChoices}

ContextIdle ==
    /\ exported = <<>>
    /\ ctxPc = "idle"
    /\ contextBreakdown = EmptyBreakdown

InitContext ==
    /\ exported \in UNION {[1..n -> ExportedPool] : n \in 0..MaxExportMsgs}
    /\ ctxPc = "ready"
    /\ contextBreakdown = EmptyBreakdown

\* result.contextBreakdown = await this.analyzeContextBreakdown(exported, tokenModel)
AnalyzeContext ==
    /\ ctxPc = "ready"
    /\ contextBreakdown' = AnalyzeContextBreakdown(exported)
    /\ ctxPc' = "done"
    /\ UNCHANGED exported
    /\ ContextOnly

----------------------------------------------------------------------------
(* SkillAnalyzer.getLoadedSkills *)

\* String.prototype.trim, for the space character
RECURSIVE TrimStart(_)
TrimStart(s) == IF s # <<>> /\ Head(s) = " " THEN TrimStart(Tail(s)) ELSE s

RECURSIVE TrimEnd(_)
TrimEnd(s) == IF s # <<>> /\ s[Len(s)] = " " THEN TrimEnd(SubSeq(s, 1, Len(s) - 1)) ELSE s

Trim(s) == TrimEnd(TrimStart(s))

\* tokenizerManager.countTokens(content, tokenModel) under the approx spec
CountTokensApprox(content) == IF IsBlank(content) THEN 0 ELSE ApproximateTokenCount(content)

\* extractSkillName: input.name, else metadata.name, else the name in the
\* title "Loaded skill: <name>"; "" stands for undefined
ExtractSkillName(state) ==
    IF state.inputName # "" THEN state.inputName
    ELSE IF state.metadataName # "" THEN state.metadataName
    ELSE state.titleName

\* a plausible slip: a repeated skill is billed once
SkillTotalDeduplicated(tokens, callCount) == tokens

\* const totalSkillTokens = skillData.tokens * skillData.callCount
SkillTotal(tokens, callCount) == tokens * callCount

\* the parts of the transcript in order, each with the running messageIndex
RECURSIVE FlattenParts(_, _, _)
FlattenParts(messages, n, messageIndex) ==
    IF n > Len(messages) THEN <<>>
    ELSE LET m == messages[n]
             idx == IF m.role \in {"user", "assistant"} THEN messageIndex + 1 ELSE messageIndex
         IN [j \in 1..Len(m.parts) |-> [part |-> m.parts[j], messageIndex |-> idx]]
            \o FlattenParts(messages, n + 1, idx)

\* the loop body of getLoadedSkills for one part: skillMap is kept as a
\* sequence in insertion order, as a Map iterates
VisitPart(skillMap, p) ==
    LET part == p.part
        skillName == ExtractSkillName(part.state)
        content == Trim(part.state.output)
        seen == {i \in 1..Len(skillMap) : skillMap[i].name = skillName}
    IN IF part.type # "tool" \/ part.tool # "skill" \/ part.state.status # "completed"
          \/ skillName = "" \/ content = <<>>
       THEN skillMap
       ELSE IF seen # {}
       THEN [i \in 1..Len(skillMap) |->
                IF i \in seen THEN [skillMap[i] EXCEPT !.callCount = @ + 1] ELSE skillMap[i]]
       ELSE Append(skillMap,
                   [name |-> skillName, callCount |-> 1, firstMessageIndex |-> p.messageIndex,
                    tokens |-> CountTokensApprox(content)])

RECURSIVE VisitParts(_, _)
VisitParts(skillMap, parts) ==
    IF parts = <<>> THEN skillMap ELSE VisitParts(VisitPart(skillMap, Head(parts)), Tail(parts))

ToLoadedSkill(d) ==
    [name |-> d.name, callCount |-> d.callCount, firstMessageIndex |-> d.firstMessageIndex,
     tokens |-> d.tokens, totalTokens |-> SkillTotal(d.tokens, d.callCount)]

\* skills.sort((a, b) => b.totalTokens - a.totalTokens): a stable sort
RECURSIVE InsertByTotal(_, _)
InsertByTotal(sorted, x) ==
    IF sorted = <<>> THEN <<x>>
    ELSE IF Head(sorted).totalTokens >= x.totalTokens
    THEN <<Head(sorted)>> \o InsertByTotal(Tail(sorted), x)
    ELSE <<x>> \o sorted

RECURSIVE SortByTotal(_, _)
SortByTotal(sorted, rest) ==
    IF rest = <<>> THEN sorted ELSE SortByTotal(InsertByTotal(sorted, Head(rest)), Tail(rest))

RECURSIVE SumTotals(_)
SumTotals(skills) ==
    IF skills = <<>> THEN 0 ELSE Head(skills).totalTokens + SumTotals(Tail(skills))

GetLoadedSkills(messages) ==
    LET skillMap == VisitParts(<<>>, FlattenParts(messages, 1, 0))
        skills == [i \in 1..Len(skillMap) |-> ToLoadedSkill(skillMap[i])]
    IN [skills |-> SortByTotal(<<>>, skills), totalTokens |-> SumTotals(skills)]

ToolState(status, inputName, metadataName, titleName, output) ==
    [status |-> status, inputName |-> inputName, metadataName |-> metadataName,
     titleName |-> titleName, output |-> output]

ToolPart(tool, state) == [type |-> "tool", tool |-> tool, state |-> state]

TextPart == [type |-> "text", tool |-> "", state |-> ToolState("", "", "", "", <<>>)]

Out5 == <<"a", "b", "c", "d", "e">>
OutPadded == <<" ", "a", "b", "c", "d">>
Out9 == <<"a", "b", "c", "d", "e", "f", "g", "h", "i">>

\* the parts a transcript may hold
PartPool ==
    { ToolPart("skill", ToolState("completed", "research", "", "", Out5)),
      ToolPart("skill", ToolState("completed", "research", "", "", OutPadded)),
      ToolPart("skill", ToolState("completed", "research", "", "", <<" ", " ">>)),
      ToolPart("skill", ToolState("error", "research", "", "", Out5)),
      ToolPart("skill", ToolState("completed", "", "review", "research", Out9)),
      ToolPart("skill", ToolState("completed", "", "", "review", Out5)),
      ToolPart("skill", ToolState("completed", "", "", "", Out5)),
      ToolPart("bash", ToolState("completed", "research", "", "", Out9)),
      TextPart }

SkillMsgPool ==
    {[role |-> "user", parts |-> <<>>]}
    \cup {[role |-> "assistant", parts |-> <<p>>] : p \in PartPool}
    \cup {[role |-> "assistant", parts |-> <<p, p>>] :
             p \in {ToolPart("skill", ToolState("completed", "research", "", "", OutPadded)),
                    ToolPart("skill", ToolState("completed", "", "", "review", Out5))}}

SkillIdle ==
    /\ skillMessages = <<>>
    /\ skillPc = "idle"
    /\ loadedSkills = <<>>
    /\ totalLoadedTokens = 0

InitSkill ==
    /\ skillMessages \in UNION {[1..n -> SkillMsgPool] : n \in 0..MaxSkillMsgs}
    /\ skillPc = "ready"
    /\ loadedSkills = <<>>
    /\ totalLoadedTokens = 0

\* const loadedResult = await this.getLoadedSkills(messages, tokenModel)
AnalyzeLoadedSkills ==
    /\ skillPc = "ready"
    /\ loadedSkills' = GetLoadedSkills(skillMessages).skills
    /\ totalLoadedTokens' = GetLoadedSkills(skillMessages).totalTokens
    /\ skillPc' = "done"
    /\ UNCHANGED skillMessages
    /\ SkillOnly

----------------------------------------------------------------------------
(* ModelResolver *)

\* the value undefined, where a string is expected: no string is equal to it
Undefined == <<"undefined">>

\* if (value): neither undefined nor ""
Truthy(s) == s # Undefined /\ s # <<>>

\* value.split("/").pop()
PopSegment(s) == IF Includes(s, "/") THEN LastSegment(s) ELSE s

\* value?.split("/").pop()?.toLowerCase().trim()
Canonicalize(value) ==
    IF value = Undefined THEN Undefined ELSE Trim(ToLowerCase(PopSegment(value)))

\* OpenAI model mapping for tiktoken
OPENAI_MODEL_MAP ==
    (<<"g", "p", "t", "-", "5">> :> <<"g", "p", "t", "-", "4", "o">>)
    @@ (<<"o", "4", "-", "m", "i", "n", "i">> :> <<"g", "p", "t", "-", "4", "o">>)
    @@ (<<"o", "3">> :> <<"g", "p", "t", "-", "4", "o">>)
    @@ (<<"o", "3", "-", "m", "i", "n", "i">> :> <<"g", "p", "t", "-", "4", "o">>)
    @@ (<<"o", "1">> :> <<"g", "p", "t", "-", "4", "o">>)
    @@ (<<"o", "1", "-", "p", "r", "o">> :> <<"g", "p", "t", "-", "4", "o">>)
    @@ (<<"g", "p", "t", "-", "4", ".", "1">> :> <<"g", "p", "t", "-", "4", "o">>)
    @@ (<<"g", "p", "t", "-", "4", ".", "1", "-", "m", "i", "n", "i">> :> <<"g", "p", "t", "-", "4", "o">>)
    @@ (<<"g", "p", "t", "-", "4", "o">> :> <<"g", "p", "t", "-", "4", "o">>)
    @@ (<<"g", "p", "t", "-", "4", "o", "-", "m", "i", "n", "i">> :> <<"g", "p", "t", "-", "4", "o", "-", "m", "i", "n", "i">>)
    @@ (<<"g", "p", "t", "-", "4", "-", "t", "u", "r", "b", "o">> :> <<"g", "p", "t", "-", "4">>)
    @@ (<<"g", "p", "t", "-", "4">> :> <<"g", "p", "t", "-", "4">>)
    @@ (<<"g", "p", "t", "-", "3", ".", "5", "-", "t", "u", "r", "b", "o">> :> <<"g", "p", "t", "-", "3", ".", "5", "-", "t", "u", "r", "b", "o">>)
    @@ (<<"t", "e", "x", "t", "-", "e", "m", "b", "e", "d", "d", "i", "n", "g", "-", "3", "-", "l", "a", "r", "g", "e">> :> <<"t", "e", "x", "t", "-", "e", "m", "b", "e", "d", "d", "i", "n", "g", "-", "3", "-", "l", "a", "r", "g", "e">>)
    @@ (<<"t", "e", "x", "t", "-", "e", "m", "b", "e", "d", "d", "i", "n", "g", "-", "3", "-", "s", "m", "a", "l", "l">> :> <<"t", "e", "x", "t", "-", "e", "m", "b", "e", "d", "d", "i", "n", "g", "-", "3", "-", "s", "m", "a", "l", "l">>)
    @@ (<<"t", "e", "x", "t", "-", "e", "m", "b", "e", "d", "d", "i", "n", "g", "-", "a", "d", "a", "-", "0", "0", "2">> :> <<"t", "e", "x", "t", "-", "e", "m", "b", "e", "d", "d", "i", "n", "g", "-", "a", "d", "a", "-", "0", "0", "2">>)

\* Transformers model mapping for HuggingFace tokenizers
TRANSFORMERS_MODEL_MAP ==
    (<<"c", "l", "a", "u", "d", "e", "-", "o", "p", "u", "s", "-", "4">> :> <<"X", "e", "n", "o", "v", "a", "/", "c", "l", "a", "u", "d", "e", "-", "t", "o", "k", "e", "n", "i", "z", "e", "r">>)
    @@ (<<"c", "l", "a", "u", "d", "e", "-", "s", "o", "n", "n", "e", "t", "-", "4">> :> <<"X", "e", "n", "o", "v", "a", "/", "c", "l", "a", "u", "d", "e", "-", "t", "o", "k", "e", "n", "i", "z", "e", "r">>)
    @@ (<<"c", "l", "a", "u", "d", "e", "-", "3", ".", "7", "-", "s", "o", "n", "n", "e", "t">> :> <<"X", "e", "n", "o", "v", "a", "/", "c", "l", "a", "u", "d", "e", "-", "t", "o", "k", "e", "n", "i", "z", "e", "r">>)
    @@ (<<"c", "l", "a", "u", "d", "e", "-", "3", ".", "5", "-", "s", "o", "n", "n", "e", "t">> :> <<"X", "e", "n", "o", "v", "a", "/", "c", "l", "a", "u", "d", "e", "-", "t", "o", "k", "e", "n", "i", "z", "e", "r">>)
    @@ (<<"c", "l", "a", "u", "d", "e", "-", "3", ".", "5", "-", "h", "a", "i", "k", "u">> :> <<"X", "e", "n", "o", "v", "a", "/", "c", "l", "a", "u", "d", "e", "-", "t", "o", "k", "e", "n", "i", "z", "e", "r">>)
    @@ (<<"c", "l", "a", "u", "d", "e", "-", "3", "-", "o", "p", "u", "s">> :> <<"X", "e", "n", "o", "v", "a", "/", "c", "l", "a", "u", "d", "e", "-", "t", "o", "k", "e", "n", "i", "z", "e", "r">>)
    @@ (<<"c", "l", "a", "u", "d", "e", "-", "3", "-", "s", "o", "n", "n", "e", "t">> :> <<"X", "e", "n", "o", "v", "a", "/", "c", "l", "a", "u", "d", "e", "-", "t", "o", "k", "e", "n", "i", "z", "e", "r">>)
    @@ (<<"c", "l", "a", "u", "d", "e", "-", "3", "-", "h", "a", "i", "k", "u">> :> <<"X", "e", "n", "o", "v", "a", "/", "c", "l", "a", "u", "d", "e", "-", "t", "o", "k", "e", "n", "i", "z", "e", "r">>)
    @@ (<<"c", "l", "a", "u", "d", "e", "-", "2", ".", "1">> :> <<"X", "e", "n", "o", "v", "a", "/", "c", "l", "a", "u", "d", "e", "-", "t", "o", "k", "e", "n", "i", "z", "e", "r">>)
    @@ (<<"c", "l", "a", "u", "d", "e", "-", "2", ".", "0">> :> <<"X", "e", "n", "o", "v", "a", "/", "c", "l", "a", "u", "d", "e", "-", "t", "o", "k", "e", "n", "i", "z", "e", "r">>)
    @@ (<<"c", "l", "a", "u", "d", "e", "-", "i", "n", "s", "t", "a", "n", "t", "-", "1", ".", "2">> :> <<"X", "e", "n", "o", "v", "a", "/", "c", "l", "a", "u", "d", "e", "-", "t", "o", "k", "e", "n", "i", "z", "e", "r">>)
    @@ (<<"l", "l", "a", "m", "a", "-", "4">> :> <<"X", "e", "n", "o", "v", "a", "/", "l", "l", "a", "m", "a", "4", "-", "t", "o", "k", "e", "n", "i", "z", "e", "r">>)
    @@ (<<"l", "l", "a", "m", "a", "-", "3", ".", "3">> :> <<"u", "n", "s", "l", "o", "t", "h", "/", "L", "l", "a", "m", "a", "-", "3", ".", "3", "-", "7", "0", "B", "-", "I", "n", "s", "t", "r", "u", "c", "t">>)
    @@ (<<"l", "l", "a", "m", "a", "-", "3", ".", "2">> :> <<"X", "e", "n", "o", "v", "a", "/", "L", "l", "a", "m", "a", "-", "3", ".", "2", "-", "T", "o", "k", "e", "n", "i", "z", "e", "r">>)
    @@ (<<"l", "l", "a", "m", "a", "-", "3", ".", "1">> :> <<"X", "e", "n", "o", "v", "a", "/", "M", "e", "t", "a", "-", "L", "l", "a", "m", "a", "-", "3", ".", "1", "-", "T", "o", "k", "e", "n", "i", "z", "e", "r">>)
    @@ (<<"l", "l", "a", "m", "a", "-", "3">> :> <<"X", "e", "n", "o", "v", "a", "/", "l", "l", "a", "m", "a", "3", "-", "t", "o", "k", "e", "n", "i", "z", "e", "r", "-", "n", "e", "w">>)
    @@ (<<"l", "l", "a", "m", "a", "-", "2">> :> <<"X", "e", "n", "o", "v", "a", "/", "l", "l", "a", "m", "a", "2", "-", "t", "o", "k", "e", "n", "i", "z", "e", "r">>)
    @@ (<<"c", "o", "d", "e", "-", "l", "l", "a", "m", "a">> :> <<"X", "e", "n", "o", "v", "a", "/", "l", "l", "a", "m", "a", "-", "c", "o", "d", "e", "-", "t", "o", "k", "e", "n", "i", "z", "e", "r">>)
    @@ (<<"d", "e", "e", "p", "s", "e", "e", "k", "-", "r", "1">> :> <<"d", "e", "e", "p", "s", "e", "e", "k", "-", "a", "i", "/", "D", "e", "e", "p", "S", "e", "e", "k", "-", "R", "1">>)
    @@ (<<"d", "e", "e", "p", "s", "e", "e", "k", "-", "v", "3">> :> <<"d", "e", "e", "p", "s", "e", "e", "k", "-", "a", "i", "/", "D", "e", "e", "p", "S", "e", "e", "k", "-", "V", "3">>)
    @@ (<<"d", "e", "e", "p", "s", "e", "e", "k", "-", "v", "2">> :> <<"d", "e", "e", "p", "s", "e", "e", "k", "-", "a", "i", "/", "D", "e", "e", "p", "S", "e", "e", "k", "-", "V", "2">>)
    @@ (<<"m", "i", "s", "t", "r", "a", "l", "-", "l", "a", "r", "g", "e">> :> <<"X", "e", "n", "o", "v", "a", "/", "m", "i", "s", "t", "r", "a", "l", "-", "t", "o", "k", "e", "n", "i", "z", "e", "r", "-", "v", "3">>)
    @@ (<<"m", "i", "s", "t", "r", "a", "l", "-", "s", "m", "a", "l", "l">> :> <<"X", "e", "n", "o", "v", "a", "/", "m", "i", "s", "t", "r", "a", "l", "-", "t", "o", "k", "e", "n", "i", "z", "e", "r", "-", "v", "3">>)
    @@ (<<"m", "i", "s", "t", "r", "a", "l", "-", "n", "e", "m", "o">> :> <<"X", "e", "n", "o", "v", "a", "/", "M", "i", "s", "t", "r", "a", "l", "-", "N", "e", "m", "o", "-", "I", "n", "s", "t", "r", "u", "c", "t", "-", "T", "o", "k", "e", "n", "i", "z", "e", "r">>)
    @@ (<<"d", "e", "v", "s", "t", "r", "a", "l", "-", "s", "m", "a", "l", "l">> :> <<"X", "e", "n", "o", "v", "a", "/", "M", "i", "s", "t", "r", "a", "l", "-", "N", "e", "m", "o", "-", "I", "n", "s", "t", "r", "u", "c", "t", "-", "T", "o", "k", "e", "n", "i", "z", "e", "r">>)
    @@ (<<"c", "o", "d", "e", "s", "t", "r", "a", "l">> :> <<"X", "e", "n", "o", "v", "a", "/", "m", "i", "s", "t", "r", "a", "l", "-", "t", "o", "k", "e", "n", "i", "z", "e", "r", "-", "v", "3">>)

\* Provider default tokenizers
PROVIDER_DEFAULTS ==
    (<<"a", "n", "t", "h", "r", "o", "p", "i", "c">> :> [kind |-> "transformers", key |-> <<"X", "e", "n", "o", "v", "a", "/", "c", "l", "a", "u", "d", "e", "-", "t", "o", "k", "e", "n", "i", "z", "e", "r">>])
    @@ (<<"m", "e", "t", "a">> :> [kind |-> "transformers", key |-> <<"X", "e", "n", "o", "v", "a", "/", "M", "e", "t", "a", "-", "L", "l", "a", "m", "a", "-", "3", ".", "1", "-", "T", "o", "k", "e", "n", "i", "z", "e", "r">>])
    @@ (<<"m", "i", "s", "t", "r", "a", "l">> :> [kind |-> "transformers", key |-> <<"X", "e", "n", "o", "v", "a", "/", "m", "i", "s", "t", "r", "a", "l", "-", "t", "o", "k", "e", "n", "i", "z", "e", "r", "-", "v", "3">>])
    @@ (<<"d", "e", "e", "p", "s", "e", "e", "k">> :> [kind |-> "transformers", key |-> <<"d", "e", "e", "p", "s", "e", "e", "k", "-", "a", "i", "/", "D", "e", "e", "p", "S", "e", "e", "k", "-", "V", "3">>])
    @@ (<<"g", "o", "o", "g", "l", "e">> :> [kind |-> "transformers", key |-> <<"g", "o", "o", "g", "l", "e", "/", "g", "e", "m", "m", "a", "-", "2", "-", "9", "b", "-", "i", "t">>])

NameOpenai == <<"o", "p", "e", "n", "a", "i">>
NameOpencode == <<"o", "p", "e", "n", "c", "o", "d", "e">>
NameAzure == <<"a", "z", "u", "r", "e">>
NameCl100k == <<"c", "l", "1", "0", "0", "k", "_", "b", "a", "s", "e">>
NameApprox == <<"a", "p", "p", "r", "o", "x">>
PrefixClaude == <<"c", "l", "a", "u", "d", "e">>
PrefixLlama == <<"l", "l", "a", "m", "a">>
PrefixMistral == <<"m", "i", "s", "t", "r", "a", "l">>
PrefixDeepseek == <<"d", "e", "e", "p", "s", "e", "e", "k">>
HubClaude == <<"X", "e", "n", "o", "v", "a", "/", "c", "l", "a", "u", "d", "e", "-", "t", "o", "k", "e", "n", "i", "z", "e", "r">>
HubLlama31 == <<"X", "e", "n", "o", "v", "a", "/", "M", "e", "t", "a", "-", "L", "l", "a", "m", "a", "-", "3", ".", "1", "-", "T", "o", "k", "e", "n", "i", "z", "e", "r">>
HubMistralV3 == <<"X", "e", "n", "o", "v", "a", "/", "m", "i", "s", "t", "r", "a", "l", "-", "t", "o", "k", "e", "n", "i", "z", "e", "r", "-", "v", "3">>
HubDeepseekV3 == <<"d", "e", "e", "p", "s", "e", "e", "k", "-", "a", "i", "/", "D", "e", "e", "p", "S", "e", "e", "k", "-", "V", "3">>

\* a TokenModel: spec.key is the tiktoken model or the transformers hub
TokenModel(name, kind, key) == [name |-> name, spec |-> [kind |-> kind, key |-> key]]

\* the undefined a resolve step returns when it matches nothing
NoTokenModel == TokenModel(Undefined, "none", <<>>)

ApproxTokenModel == TokenModel(NameApprox, "approx", <<>>)

\* modelID ?? other
OrElse(value, other) == IF value = Undefined THEN other ELSE value

MapOpenAI(modelID) ==
    IF ~Truthy(modelID) THEN NameCl100k
    ELSE IF modelID \in DOMAIN OPENAI_MODEL_MAP THEN OPENAI_MODEL_MAP[modelID]
    ELSE modelID

ResolveOpenAIModel(modelID, providerID) ==
    IF providerID \in {NameOpenai, NameOpencode, NameAzure}
    THEN TokenModel(OrElse(modelID, MapOpenAI(modelID)), "tiktoken", MapOpenAI(modelID))
    ELSE IF Truthy(modelID) /\ modelID \in DOMAIN OPENAI_MODEL_MAP
    THEN TokenModel(modelID, "tiktoken", OPENAI_MODEL_MAP[modelID])
    ELSE NoTokenModel

ResolveTransformersModel(modelID, providerID) ==
    IF Truthy(modelID) /\ modelID \in DOMAIN TRANSFORMERS_MODEL_MAP
    THEN TokenModel(modelID, "transformers", TRANSFORMERS_MODEL_MAP[modelID])
    ELSE IF Truthy(providerID) /\ providerID \in DOMAIN PROVIDER_DEFAULTS
    THEN [name |-> OrElse(modelID, providerID), spec |-> PROVIDER_DEFAULTS[providerID]]
    ELSE IF modelID # Undefined /\ StartsWith(modelID, PrefixClaude)
    THEN TokenModel(modelID, "transformers", HubClaude)
    ELSE IF modelID # Undefined /\ StartsWith(modelID, PrefixLlama)
    THEN TokenModel(modelID, "transformers", HubLlama31)
    ELSE IF modelID # Undefined /\ StartsWith(modelID, PrefixMistral)
    THEN TokenModel(modelID, "transformers", HubMistralV3)
    ELSE IF modelID # Undefined /\ StartsWith(modelID, PrefixDeepseek)
    THEN TokenModel(modelID, "transformers", HubDeepseekV3)
    ELSE NoTokenModel

\* the body of the loop of resolveTokenModel for one message
ResolvePair(info) ==
    LET modelID == Canonicalize(info.modelID)
        providerID == Canonicalize(info.providerID)
        openaiModel == ResolveOpenAIModel(modelID, providerID)
    IN IF openaiModel # NoTokenModel THEN openaiModel
       ELSE ResolveTransformersModel(modelID, providerID)

\* resolveTokenModel: the messages from index n down to 1
RECURSIVE ResolveTokenModel(_, _)
ResolveTokenModel(messages, n) ==
    IF n = 0 THEN ApproxTokenModel
    ELSE IF ResolvePair(messages[n]) # NoTokenModel THEN ResolvePair(messages[n])
    ELSE ResolveTokenModel(messages, n - 1)

DefaultProviderID == <<"a", "n", "t", "h", "r", "o", "p", "i", "c">>
DefaultModelID == <<"c", "l", "a", "u", "d", "e", "-", "s", "o", "n", "n", "e", "t", "-", "4", "-", "2", "0", "2", "5", "0", "5", "1", "4">>

\* a plausible slip: the scan does not stop at the first message with both ids
RECURSIVE DetectPairNoBreak(_, _, _)
DetectPairNoBreak(messages, n, detected) ==
    IF n = 0 THEN detected
    ELSE LET info == messages[n]
             canonical == Canonicalize(info.providerID)
             provider == IF Truthy(info.providerID) /\ Truthy(canonical)
                         THEN canonical ELSE detected.providerID
             model == IF Truthy(info.modelID) THEN info.modelID ELSE detected.modelID
         IN DetectPairNoBreak(messages, n - 1, [providerID |-> provider, modelID |-> model])

\* the loop of resolveModelAndProvider: the messages from index n down to 1
RECURSIVE DetectPair(_, _, _)
DetectPair(messages, n, detected) ==
    IF n = 0 THEN detected
    ELSE LET info == messages[n]
             canonical == Canonicalize(info.providerID)
             provider == IF Truthy(info.providerID) /\ Truthy(canonical)
                         THEN canonical ELSE detected.providerID
             model == IF Truthy(info.modelID) THEN info.modelID ELSE detected.modelID
             next == [providerID |-> provider, modelID |-> model]
         IN IF Truthy(info.providerID) /\ Truthy(info.modelID) THEN next
            ELSE DetectPair(messages, n - 1, next)

ResolveModelAndProvider(messages) ==
    LET detected == DetectPair(messages, Len(messages),
                               [providerID |-> DefaultProviderID, modelID |-> DefaultModelID])
    IN [model |-> ResolveTokenModel(messages, Len(messages)),
        providerID |-> detected.providerID,
        modelID |-> detected.modelID]

\* the provider and model ids the messages of a transcript may carry
ProviderIDs == {Undefined, <<"o", "p", "e", "n", "a", "i">>, <<"G", "o", "o", "g", "l", "e">>, <<"a", "c", "m", "e">>, <<" ">>}
ModelIDs == {Undefined, <<"G", "P", "T", "-", "4", "o">>, <<"c", "l", "a", "u", "d", "e", "-", "3", "-", "o", "p", "u", "s">>, <<"l", "l", "a", "m", "a", "-", "x">>, <<"m", "y", "s", "t", "e", "r", "y">>}

ResolverInfos == [providerID : ProviderIDs, modelID : ModelIDs]

ResolverIdle ==
    /\ resolverMessages = <<>>
    /\ resolverPc = "idle"
    /\ resolved = [model |-> ApproxTokenModel, providerID |-> DefaultProviderID,
                   modelID |-> DefaultModelID]

InitResolver ==
    /\ resolverMessages \in UNION {[1..n -> ResolverInfos] : n \in 0..MaxResolverMsgs}
    /\ resolverPc = "ready"
    /\ resolved = [model |-> ApproxTokenModel, providerID |-> DefaultProviderID,
                   modelID |-> DefaultModelID]

\* const { model, providerID, modelID } = resolveModelAndProvider(messages)
ResolveCall ==
    /\ resolverPc = "ready"
    /\ resolved' = ResolveModelAndProvider(resolverMessages)
    /\ resolverPc' = "done"
    /\ UNCHANGED resolverMessages
    /\ ResolverOnly

----------------------------------------------------------------------------
(* ContentCollector and TokenAnalysisEngine *)

DEFAULT_ENTRY_LIMIT == 3

\* args.limitMessages ?? DEFAULT_ENTRY_LIMIT, limitMessages an integer of 1..10
EntryLimits == {1, 2, DEFAULT_ENTRY_LIMIT}

\* the length of each system prompt text, after trimming
PromptLength == [main |-> 40, rules |-> 22]

\* tokenizerManager.countTokens of a trimmed text of the given length, under
\* the approx spec: 0 for the empty text
CountTokensOfLength(length) == CeilQuarter(length)

\* A message of the transcript.  text is the length of extractText(parts)
\* (0: no text part), prompt the text of a system message, system the list
\* info.system, tool / status / toolOutput its tool part (tool "": none;
\* toolOutput the length of the trimmed output), reasoning the length of its
\* reasoning part, and hasTokens / tokens / cost the telemetry of info.
EngineMsg(role, text, prompt, system, tool, status, toolOutput, reasoning, hasTokens, tokens, cost) ==
    [role |-> role, text |-> text, prompt |-> prompt, system |-> system, tool |-> tool,
     status |-> status, toolOutput |-> toolOutput, reasoning |-> reasoning,
     hasTokens |-> hasTokens, tokens |-> tokens, cost |-> cost]

NoTelemetry == Tokens(0, 0, 0, 0, 0)

EngineMsgPool ==
    { EngineMsg("system", 0, "main", <<>>, "", "", 0, 0, FALSE, NoTelemetry, Missing),
      EngineMsg("user", 20, "", <<>>, "", "", 0, 0, FALSE, NoTelemetry, Missing),
      EngineMsg("user", 17, "", <<>>, "", "", 0, 0, FALSE, NoTelemetry, Missing),
      EngineMsg("user", 44, "", <<>>, "", "", 0, 0, FALSE, NoTelemetry, Missing),
      EngineMsg("user", 0, "", <<>>, "", "", 0, 0, TRUE, Tokens(99, 9, 9, 9, 9), 999),
      EngineMsg("assistant", 32, "", <<>>, "", "", 0, 0, TRUE, Tokens(10, 5, 0, 2, 0), 100),
      EngineMsg("assistant", 0, "", <<>>, "bash", "completed", 24, 0, TRUE, NoTelemetry, Missing),
      EngineMsg("assistant", 0, "", <<"main", "rules">>, "", "", 0, 0, FALSE, NoTelemetry, Missing),
      EngineMsg("assistant", 0, "", <<>>, "read", "completed", 10, 12, TRUE,
                Tokens(30, Missing, 4, 8, Missing), 250),
      EngineMsg("assistant", 0, "", <<>>, "bash", "error", 8, 0, FALSE, NoTelemetry, 50),
      EngineMsg("assistant", 8, "", <<>>, "bash", "completed", 6, 0, TRUE, Tokens(3, 0, 0, 1, 0), 0),
      EngineMsg("assistant", 0, "", <<>>, "", "", 0, 0, TRUE, Tokens(2, 0, 0, 0, 0), Missing) }

\* prompts.set(content, content): a Map keeps the position of a key it has
AddPrompt(prompts, content) ==
    IF \E i \in 1..Len(prompts) : prompts[i] = content THEN prompts ELSE Append(prompts, content)

RECURSIVE AddPrompts(_, _)
AddPrompts(prompts, list) ==
    IF list = <<>> THEN prompts ELSE AddPrompts(AddPrompt(prompts, Head(list)), Tail(list))

\* the Map of collectSystemPrompts after messages[1..n]
RECURSIVE SystemPromptMap(_, _)
SystemPromptMap(messages, n) ==
    IF n = 0 THEN <<>>
    ELSE LET m == messages[n]
             before == SystemPromptMap(messages, n - 1)
         IN IF m.role = "system"
            THEN (IF m.prompt # "" THEN AddPrompt(before, m.prompt) ELSE before)
            ELSE IF m.role = "assistant" THEN AddPrompts(before, m.system)
            ELSE before

\* a CategoryEntrySource: label and the length of content
CollectSystemPrompts(messages) ==
    LET prompts == SystemPromptMap(messages, Len(messages))
    IN [i \in 1..Len(prompts) |-> [label |-> <<"System", i>>, length |-> PromptLength[prompts[i]]]]

\* collectMessageTexts over messages[1..n]
RECURSIVE CollectMessageTexts(_, _, _)
CollectMessageTexts(messages, n, role) ==
    IF n = 0 THEN <<>>
    ELSE LET results == CollectMessageTexts(messages, n - 1, role)
             m == messages[n]
         IN IF m.role # role \/ m.text = 0 THEN results
            ELSE Append(results, [label |-> <<role, Len(results) + 1>>, length |-> m.text])

\* toolOutputs.set(toolName, existing + (existing ? "\n\n" : "") + output)
AddToolOutput(toolOutputs, toolName, output) ==
    IF \E i \in 1..Len(toolOutputs) : toolOutputs[i].label = toolName
    THEN [i \in 1..Len(toolOutputs) |->
             IF toolOutputs[i].label = toolName
             THEN [toolOutputs[i] EXCEPT !.length = @ + 2 + output]
             ELSE toolOutputs[i]]
    ELSE Append(toolOutputs, [label |-> toolName, length |-> output])

\* collectToolOutputs over messages[1..n]
RECURSIVE CollectToolOutputs(_, _)
CollectToolOutputs(messages, n) ==
    IF n = 0 THEN <<>>
    ELSE LET toolOutputs == CollectToolOutputs(messages, n - 1)
             m == messages[n]
         IN IF m.tool = "" \/ m.status # "completed" \/ m.toolOutput = 0 THEN toolOutputs
            ELSE AddToolOutput(toolOutputs, m.tool, m.toolOutput)

\* collectReasoningTexts over messages[1..n]
RECURSIVE CollectReasoningTexts(_, _)
CollectReasoningTexts(messages, n) ==
    IF n = 0 THEN <<>>
    ELSE LET results == CollectReasoningTexts(messages, n - 1)
             m == messages[n]
         IN IF m.reasoning = 0 THEN results
            ELSE Append(results, [label |-> <<"Reasoning", Len(results) + 1>>,
                                  length |-> m.reasoning])

\* the loop of buildCategory: the sources that count more than 0 tokens
RECURSIVE CountEntries(_)
CountEntries(sources) ==
    IF sources = <<>> THEN <<>>
    ELSE LET tokens == CountTokensOfLength(Head(sources).length)
         IN (IF tokens > 0 THEN <<[label |-> Head(sources).label, tokens |-> tokens]>> ELSE <<>>)
            \o CountEntries(Tail(sources))

RECURSIVE InsertByTokens(_, _)
InsertByTokens(sorted, x) ==
    IF sorted = <<>> THEN <<x>>
    ELSE IF Head(sorted).tokens >= x.tokens
    THEN <<Head(sorted)>> \o InsertByTokens(Tail(sorted), x)
    ELSE <<x>> \o sorted

RECURSIVE InsertAll(_, _)
InsertAll(sorted, rest) ==
    IF rest = <<>> THEN sorted ELSE InsertAll(InsertByTokens(sorted, Head(rest)), Tail(rest))

\* a plausible slip: the entries are left in collection order
KeepCollectionOrder(entries) == entries

\* entries.sort((a, b) => b.tokens - a.tokens): a stable sort
SortByTokens(entries) == InsertAll(<<>>, entries)

\* entries.slice(0, entryLimit), entryLimit >= 1
Slice(entries, entryLimit) ==
    SubSeq(entries, 1, IF entryLimit < Len(entries) THEN entryLimit ELSE Len(entries))

RECURSIVE SumTokens(_)
SumTokens(entries) ==
    IF entries = <<>> THEN 0 ELSE Head(entries).tokens + SumTokens(Tail(entries))

BuildCategory(sources, entryLimit) ==
    LET entries == SortByTokens(CountEntries(sources))
    IN [totalTokens |-> SumTokens(entries), entries |-> Slice(entries, entryLimit),
        allEntries |-> entries]

\* a plausible slip: telemetry is taken from a message of any role
HasTelemetry(m) == m.hasTokens \/ m.cost # Missing

\* m.info.role === "assistant" && (m.info?.tokens || m.info?.cost !== undefined)
IsTelemetryAssistant(m) == m.role = "assistant" /\ (m.hasTokens \/ m.cost # Missing)

\* messages.filter(...).map(...): tokens and cost ?? 0 of each such message
RECURSIVE Assistants(_)
Assistants(messages) ==
    IF messages = <<>> THEN <<>>
    ELSE (IF IsTelemetryAssistant(Head(messages))
          THEN <<[hasTokens |-> Head(messages).hasTokens, tokens |-> Head(messages).tokens,
                  cost |-> Num(Head(messages).cost)]>>
          ELSE <<>>)
         \o Assistants(Tail(messages))

\* a plausible slip: the cost is added inside `if (tokens)`
RECURSIVE TotalsCostWithTokens(_, _)
TotalsCostWithTokens(assistants, n) ==
    IF n = 0
    THEN [input |-> 0, output |-> 0, reasoning |-> 0, cacheRead |-> 0, cacheWrite |-> 0,
          cost |-> 0]
    ELSE LET u == TotalsCostWithTokens(assistants, n - 1)
             a == assistants[n]
             t == a.tokens
         IN IF ~a.hasTokens THEN u
            ELSE [input |-> u.input + Num(t.input),
                  output |-> u.output + Num(t.output),
                  reasoning |-> u.reasoning + Num(t.reasoning),
                  cacheRead |-> u.cacheRead + Num(t.cacheRead),
                  cacheWrite |-> u.cacheWrite + Num(t.cacheWrite),
                  cost |-> u.cost + Num(a.cost)]

\* the totals loop of applyTelemetryAdjustments over assistants[1..n]
RECURSIVE TelemetryTotals(_, _)
TelemetryTotals(assistants, n) ==
    IF n = 0
    THEN [input |-> 0, output |-> 0, reasoning |-> 0, cacheRead |-> 0, cacheWrite |-> 0,
          cost |-> 0]
    ELSE LET u == TelemetryTotals(assistants, n - 1)
             a == assistants[n]
             t == a.tokens
         IN [input |-> u.input + (IF a.hasTokens THEN Num(t.input) ELSE 0),
             output |-> u.output + (IF a.hasTokens THEN Num(t.output) ELSE 0),
             reasoning |-> u.reasoning + (IF a.hasTokens THEN Num(t.reasoning) ELSE 0),
             cacheRead |-> u.cacheRead + (IF a.hasTokens THEN Num(t.cacheRead) ELSE 0),
             cacheWrite |-> u.cacheWrite + (IF a.hasTokens THEN Num(t.cacheWrite) ELSE 0),
             cost |-> u.cost + Num(a.cost)]

\* the predicate of the find: tokens && the five fields sum to more than 0
HasUsage(a) ==
    /\ a.hasTokens
    /\ Num(a.tokens.input) + Num(a.tokens.output) + Num(a.tokens.reasoning)
       + Num(a.tokens.cacheRead) + Num(a.tokens.cacheWrite) > 0

\* a plausible slip: the last assistant message, whatever its usage
LastAssistant(assistants) ==
    IF assistants = <<>> THEN <<>> ELSE <<assistants[Len(assistants)]>>

\* [...assistants].reverse().find(...) ?? assistants[assistants.length - 1];
\* <<>> is undefined
MostRecentWithUsage(assistants) ==
    LET hits == {i \in 1..Len(assistants) : HasUsage(assistants[i])}
    IN IF hits # {} THEN <<assistants[CHOOSE i \in hits : \A j \in hits : j <= i]>>
       ELSE IF assistants = <<>> THEN <<>>
       ELSE <<assistants[Len(assistants)]>>

\* the snapshot taken from mostRecentWithUsage
Snapshot(recent) ==
    IF recent = <<>>
    THEN [input |-> 0, output |-> 0, reasoning |-> 0, cacheRead |-> 0, cacheWrite |-> 0,
          cost |-> 0]
    ELSE LET a == recent[1]
             t == a.tokens
         IN [input |-> IF a.hasTokens THEN Num(t.input) ELSE 0,
             output |-> IF a.hasTokens THEN Num(t.output) ELSE 0,
             reasoning |-> IF a.hasTokens THEN Num(t.reasoning) ELSE 0,
             cacheRead |-> IF a.hasTokens THEN Num(t.cacheRead) ELSE 0,
             cacheWrite |-> IF a.hasTokens THEN Num(t.cacheWrite) ELSE 0,
             cost |-> Num(a.cost)]

\* a plausible slip: the local tool tokens are not subtracted
InferredWithoutTools(recentInput, recentCacheRead, userTokens, toolTokens) ==
    Max(0, recentInput + recentCacheRead - userTokens)

\* Math.max(0, recentApiInputTotal - localUserAndTools)
InferredSystemTokens(recentInput, recentCacheRead, userTokens, toolTokens) ==
    Max(0, recentInput + recentCacheRead - (userTokens + toolTokens))

InferredLabel == <<"System (inferred from API)", 0>>

\* the system category after the inference step
AdjustSystem(system, inferredSystemTokens) ==
    IF inferredSystemTokens > 0 /\ system.totalTokens = 0
    THEN [totalTokens |-> inferredSystemTokens,
          entries |-> <<[label |-> InferredLabel, tokens |-> inferredSystemTokens]>>,
          allEntries |-> <<[label |-> InferredLabel, tokens |-> inferredSystemTokens]>>]
    ELSE system

ApplyTelemetryAdjustments(analysis, messages) ==
    LET assistants == Assistants(messages)
        totals == TelemetryTotals(assistants, Len(assistants))
        recent == Snapshot(MostRecentWithUsage(assistants))
        inferred == InferredSystemTokens(recent.input, recent.cacheRead,
                                         analysis.categories.user.totalTokens,
                                         analysis.categories.tools.totalTokens)
        system == AdjustSystem(analysis.categories.system, inferred)
    IN [categories |-> [analysis.categories EXCEPT !.system = system],
        totalTokens |-> system.totalTokens + analysis.categories.user.totalTokens
                        + analysis.categories.assistant.totalTokens
                        + analysis.categories.tools.totalTokens
                        + analysis.categories.reasoning.totalTokens,
        inputTokens |-> totals.input,
        outputTokens |-> totals.output,
        reasoningTokens |-> totals.reasoning,
        cacheReadTokens |-> totals.cacheRead,
        cacheWriteTokens |-> totals.cacheWrite,
        assistantMessageCount |-> Len(assistants),
        mostRecentInput |-> recent.input,
        mostRecentOutput |-> recent.output,
        mostRecentReasoning |-> recent.reasoning,
        mostRecentCacheRead |-> recent.cacheRead,
        mostRecentCacheWrite |-> recent.cacheWrite,
        sessionCost |-> totals.cost,
        mostRecentCost |-> recent.cost]

\* the five categories built by analyze before the telemetry step
BuildCategories(messages, entryLimit) ==
    [system |-> BuildCategory(CollectSystemPrompts(messages), entryLimit),
     user |-> BuildCategory(CollectMessageTexts(messages, Len(messages), "user"), entryLimit),
     assistant |-> BuildCategory(CollectMessageTexts(messages, Len(messages), "assistant"),
                                 entryLimit),
     tools |-> BuildCategory(CollectToolOutputs(messages, Len(messages)), entryLimit),
     reasoning |-> BuildCategory(CollectReasoningTexts(messages, Len(messages)), entryLimit)]

\* the TokenAnalysis as analyze builds it, before applyTelemetryAdjustments
InitialAnalysis(categories) ==
    [categories |-> categories,
     totalTokens |-> categories.system.totalTokens + categories.user.totalTokens
                     + categories.assistant.totalTokens + categories.tools.totalTokens
                     + categories.reasoning.totalTokens,
     inputTokens |-> 0, outputTokens |-> 0, reasoningTokens |-> 0, cacheReadTokens |-> 0,
     cacheWriteTokens |-> 0, assistantMessageCount |-> 0, mostRecentInput |-> 0,
     mostRecentOutput |-> 0, mostRecentReasoning |-> 0, mostRecentCacheRead |-> 0,
     mostRecentCacheWrite |-> 0, sessionCost |-> 0, mostRecentCost |-> 0]

Analyze(messages, entryLimit) ==
    ApplyTelemetryAdjustments(InitialAnalysis(BuildCategories(messages, entryLimit)), messages)

EmptyCategory == [totalTokens |-> 0, entries |-> <<>>, allEntries |-> <<>>]

EngineIdle ==
    /\ engineMessages = <<>>
    /\ engineLimit = DEFAULT_ENTRY_LIMIT
    /\ enginePc = "idle"
    /\ localCategories = [c \in {"system", "user", "assistant", "tools", "reasoning"} |->
                             EmptyCategory]
    /\ tokenAnalysis = InitialAnalysis([c \in {"system", "user", "assistant", "tools", "reasoning"} |->
                                      EmptyCategory])

InitEngine ==
    /\ engineMessages \in UNION {[1..n -> EngineMsgPool] : n \in 1..MaxEngineMsgs}
    /\ engineLimit \in EntryLimits
    /\ enginePc = "ready"
    /\ localCategories = [c \in {"system", "user", "assistant", "tools", "reasoning"} |->
                             EmptyCategory]
    /\ tokenAnalysis = InitialAnalysis([c \in {"system", "user", "assistant", "tools", "reasoning"} |->
                                      EmptyCategory])

\* const analysis = await analysisEngine.analyze(sessionID, messages, tokenModel, entryLimit);
\* localCategories records the categories as built from the local text
AnalyzeCall ==
    /\ enginePc = "ready"
    /\ localCategories' = BuildCategories(engineMessages, engineLimit)
    /\ tokenAnalysis' = Analyze(engineMessages, engineLimit)
    /\ enginePc' = "done"
    /\ UNCHANGED <<engineMessages, engineLimit>>
    /\ EngineOnly

----------------------------------------------------------------------------
(* TokenAnalyzerPlugin: tokenscope.execute and the analyzers' entry points *)

\* how an awaited external call settles
LookupOutcomes == {"ok", "throws"}

\* `opencode export`: JSON on stdout, nothing on stdout, or a failed command
ExportOutcomes == {"ok", "noOutput", "throws"}

\* client.session.messages of the session itself
MessagesOutcomes == {"ok", "empty", "throws"}

\* what an async entry point settles to
Resolved(value) == [rejected |-> FALSE, value |-> value]
Rejected == [rejected |-> TRUE, value |-> "none"]

\* analyzeChildSession of the one child: a summary, or null when its messages
\* lookup throws
ChildSummaries(messagesOutcome) == IF messagesOutcome = "throws" THEN 0 ELSE 1

\* analyzeChildSessions(sessionID), the session having one child: the number
\* of summaries in the result; the catch leaves the empty result
AnalyzeChildSessionsEntry(childrenOutcome, messagesOutcome) ==
    IF childrenOutcome = "throws"
    THEN Resolved([subagents |-> 0])
    ELSE Resolved([subagents |-> ChildSummaries(messagesOutcome)])

\* runExport: the ExportedSession, or null
RunExport(exportOutcome) == IF exportOutcome = "ok" THEN "exported" ELSE "null"

\* a plausible slip: analyze without its try / catch and runExport without its own
ContextAnalyzeUnguarded(exportOutcome, enableContextBreakdown) ==
    IF exportOutcome = "throws" THEN Rejected
    ELSE IF exportOutcome = "noOutput" THEN Resolved([contextBreakdown |-> FALSE])
    ELSE Resolved([contextBreakdown |-> enableContextBreakdown])

\* ContextAnalyzer.analyze: whether the result carries a contextBreakdown
ContextAnalyze(exportOutcome, enableContextBreakdown) ==
    IF RunExport(exportOutcome) = "null"
    THEN Resolved([contextBreakdown |-> FALSE])
    ELSE Resolved([contextBreakdown |-> enableContextBreakdown])

\* getAvailableSkills: the skills parsed from the tool catalog, none when
\* client.tool.list throws
GetAvailableSkills(toolListOutcome) == IF toolListOutcome = "throws" THEN 0 ELSE 1

\* SkillAnalyzer.analyze, the transcript loading one skill
SkillAnalyze(toolListOutcome) ==
    Resolved([availableSkills |-> GetAvailableSkills(toolListOutcome), loadedSkills |-> 1])

\* a section of the analysis that was not set
NoSection == [unset |-> TRUE]

NoSections == [subagent |-> NoSection, context |-> NoSection, skill |-> NoSection]

PluginIdle ==
    /\ pluginPc = "idle"
    /\ pluginConfig = [hasSessionID |-> FALSE, includeSubagents |-> FALSE,
                       enableContextBreakdown |-> FALSE, enableSkillAnalysis |-> FALSE]
    /\ pluginFaults = {}
    /\ pluginSections = NoSections
    /\ pluginError = "none"

InitPlugin ==
    /\ pluginPc = "start"
    /\ pluginConfig \in [hasSessionID : BOOLEAN, includeSubagents : BOOLEAN,
                         enableContextBreakdown : BOOLEAN, enableSkillAnalysis : BOOLEAN]
    /\ pluginFaults = {}
    /\ pluginSections = NoSections
    /\ pluginError = "none"

\* execute up to `await client.session.messages(...)`
StartExecute ==
    /\ pluginPc = "start"
    /\ IF pluginConfig.hasSessionID
       THEN pluginPc' = "awaitMessages" /\ UNCHANGED pluginError
       ELSE pluginPc' = "rejected" /\ pluginError' = "noSession"
    /\ UNCHANGED <<pluginConfig, pluginFaults, pluginSections>>
    /\ PluginOnly

\* the messages lookup settles; resolveModelAndProvider and
\* analysisEngine.analyze follow on a non-empty transcript
MessagesSettle(outcome) ==
    /\ pluginPc = "awaitMessages"
    /\ CASE outcome = "throws" -> pluginPc' = "rejected" /\ pluginError' = "messages"
         [] outcome = "empty" -> pluginPc' = "returned" /\ UNCHANGED pluginError
         [] outcome = "ok" -> pluginPc' = "subagents" /\ UNCHANGED pluginError
    /\ UNCHANGED <<pluginConfig, pluginFaults, pluginSections>>
    /\ PluginOnly

\* if (shouldIncludeSubagents) analysis.subagentAnalysis = await analyzeChildSessions(sessionID)
SubagentStep(childrenOutcome, messagesOutcome) ==
    /\ pluginPc = "subagents"
    /\ IF ~pluginConfig.includeSubagents
       THEN /\ pluginPc' = "context"
            /\ UNCHANGED <<pluginFaults, pluginSections, pluginError>>
       ELSE LET r == AnalyzeChildSessionsEntry(childrenOutcome, messagesOutcome)
            IN /\ pluginFaults' = pluginFaults
                     \cup (IF childrenOutcome = "throws" THEN {"children"}
                           ELSE IF messagesOutcome = "throws" THEN {"childMessages"} ELSE {})
               /\ IF r.rejected
                  THEN /\ pluginPc' = "rejected" /\ pluginError' = "subagent"
                       /\ UNCHANGED pluginSections
                  ELSE /\ pluginPc' = "context"
                       /\ pluginSections' = [pluginSections EXCEPT !.subagent = r.value]
                       /\ UNCHANGED pluginError
    /\ UNCHANGED pluginConfig
    /\ PluginOnly

\* const contextResult = await contextAnalyzer.analyze(...), merged into the analysis
ContextStep(exportOutcome) ==
    /\ pluginPc = "context"
    /\ LET r == ContextAnalyze(exportOutcome, pluginConfig.enableContextBreakdown)
       IN /\ pluginFaults' = pluginFaults \cup (IF exportOutcome # "ok" THEN {"export"} ELSE {})
          /\ IF r.rejected
             THEN /\ pluginPc' = "rejected" /\ pluginError' = "context"
                  /\ UNCHANGED pluginSections
             ELSE /\ pluginPc' = "skills"
                  /\ pluginSections' = [pluginSections EXCEPT !.context = r.value]
                  /\ UNCHANGED pluginError
    /\ UNCHANGED pluginConfig
    /\ PluginOnly

\* if (config.enableSkillAnalysis) analysis.skillAnalysis = await skillAnalyzer.analyze(...)
SkillStep(toolListOutcome) ==
    /\ pluginPc = "skills"
    /\ IF ~pluginConfig.enableSkillAnalysis
       THEN /\ pluginPc' = "write"
            /\ UNCHANGED <<pluginFaults, pluginSections, pluginError>>
       ELSE LET r == SkillAnalyze(toolListOutcome)
            IN /\ pluginFaults' = pluginFaults
                     \cup (IF toolListOutcome = "throws" THEN {"toolList"} ELSE {})
               /\ IF r.rejected
                  THEN /\ pluginPc' = "rejected" /\ pluginError' = "skill"
                       /\ UNCHANGED pluginSections
                  ELSE /\ pluginPc' = "write"
                       /\ pluginSections' = [pluginSections EXCEPT !.skill = r.value]
                       /\ UNCHANGED pluginError
    /\ UNCHANGED pluginConfig
    /\ PluginOnly

\* formatter.format, fs.unlink (its error swallowed) and fs.writeFile, whose
\* error is thrown on as "Failed to write token analysis", then the summary
WriteStep(writeOutcome) ==
    /\ pluginPc = "write"
    /\ IF writeOutcome = "throws"
       THEN pluginPc' = "rejected" /\ pluginError' = "write"
       ELSE pluginPc' = "returned" /\ UNCHANGED pluginError
    /\ UNCHANGED <<pluginConfig, pluginFaults, pluginSections>>
    /\ PluginOnly
----------------------------------------------------------------------------
(* ContextAnalyzer.estimateToolSchemas *)

BASE_TOKENS == 200
PER_SIMPLE_ARG == 30
PER_COMPLEX_ARG == 60
SIMPLE_DESCRIPTION_BONUS == 80
COMPLEX_DESCRIPTION_BONUS == 120

\* the kinds of value an argument of a tool call may have
ValueKinds == {"array", "object", "null", "number", "boolean", "string"}

\* inferArgTypes for one value: typeof null is "object", and null is excluded
InferArgType(value) ==
    IF value = "array" THEN "array"
    ELSE IF value = "object" THEN "object"
    ELSE IF value = "number" THEN "number"
    ELSE IF value = "boolean" THEN "boolean"
    ELSE "string"

InferArgTypes(input) == [key \in DOMAIN input |-> InferArgType(input[key])]

\* extractToolCallData(exported).get(toolName): one ToolCallInfo for every
\* tool part of that name whose state.input is there
RECURSIVE ExtractToolCallData(_, _)
ExtractToolCallData(parts, toolName) ==
    IF parts = <<>> THEN <<>>
    ELSE (IF Head(parts).tool = toolName /\ Head(parts).hasInput
          THEN <<[argNames |-> DOMAIN Head(parts).input,
                  argTypes |-> InferArgTypes(Head(parts).input)]>>
          ELSE <<>>)
         \o ExtractToolCallData(Tail(parts), toolName)

EstimateToolTokens(toolName, callData) ==
    IF Len(callData) = 0
    THEN [tokens |-> BASE_TOKENS + 3 * PER_SIMPLE_ARG + PER_COMPLEX_ARG + SIMPLE_DESCRIPTION_BONUS,
          argCount |-> 3, hasComplex |-> TRUE]
    ELSE LET allArgNames == UNION {callData[i].argNames : i \in 1..Len(callData)}
             complexArgs == {name \in allArgNames :
                               \E i \in 1..Len(callData) :
                                   /\ name \in DOMAIN callData[i].argTypes
                                   /\ callData[i].argTypes[name] \in {"array", "object"}}
             argCount == Cardinality(allArgNames)
             simpleArgCount == argCount - Cardinality(complexArgs)
             complexArgCount == Cardinality(complexArgs)
             hasComplex == complexArgCount > 0
             descBonus == IF hasComplex THEN COMPLEX_DESCRIPTION_BONUS
                          ELSE SIMPLE_DESCRIPTION_BONUS
         IN [tokens |-> BASE_TOKENS + simpleArgCount * PER_SIMPLE_ARG
                        + complexArgCount * PER_COMPLEX_ARG + descBonus,
             argCount |-> argCount, hasComplex |-> hasComplex]

\* the names the tool parts call, each once, in transcript order
RECURSIVE CalledTools(_, _)
CalledTools(parts, seen) ==
    IF parts = <<>> THEN <<>>
    ELSE IF Head(parts).tool \in seen THEN CalledTools(Tail(parts), seen)
    ELSE <<[name |-> Head(parts).tool, enabled |-> TRUE]>>
         \o CalledTools(Tail(parts), seen \cup {Head(parts).tool})

\* Object.entries(this.extractEnabledTools(exported)): the tools map in
\* insertion order, or the called tools when the map is empty
EnabledToolEntries(export) ==
    IF export.tools # <<>> THEN export.tools ELSE CalledTools(export.parts, {})

RECURSIVE InsertByEstimate(_, _)
InsertByEstimate(sorted, x) ==
    IF sorted = <<>> THEN <<x>>
    ELSE IF Head(sorted).estimatedTokens >= x.estimatedTokens
    THEN <<Head(sorted)>> \o InsertByEstimate(Tail(sorted), x)
    ELSE <<x>> \o sorted

\* estimates.sort((a, b) => b.estimatedTokens - a.estimatedTokens): a stable sort
RECURSIVE SortByEstimate(_, _)
SortByEstimate(sorted, rest) ==
    IF rest = <<>> THEN sorted
    ELSE SortByEstimate(InsertByEstimate(sorted, Head(rest)), Tail(rest))

EstimateToolSchemas(export) ==
    LET entries == EnabledToolEntries(export)
        estimates == [i \in 1..Len(entries) |->
                        LET estimate == EstimateToolTokens(entries[i].name,
                                            ExtractToolCallData(export.parts, entries[i].name))
                        IN [name |-> entries[i].name, enabled |-> entries[i].enabled,
                            estimatedTokens |-> estimate.tokens,
                            argumentCount |-> estimate.argCount,
                            hasComplexArgs |-> estimate.hasComplex]]
    IN SortByEstimate(<<>>, estimates)

NoInput == [key \in {} |-> "string"]

ToolCallPart(tool, hasInput, input) == [tool |-> tool, hasInput |-> hasInput, input |-> input]

\* state.input of the tool parts an export may hold
InputPool ==
    { NoInput,
      [key \in {"command"} |-> "string"],
      [key \in {"command"} |-> "array"],
      [key \in {"command"} |-> "null"],
      [key \in {"command", "files"} |-> IF key = "files" THEN "array" ELSE "string"],
      [key \in {"files", "count"} |-> IF key = "files" THEN "object" ELSE "number"],
      [key \in {"command", "files", "count"} |-> IF key = "count" THEN "boolean" ELSE "string"] }

ToolPartPool ==
    {ToolCallPart(tool, TRUE, input) : tool \in {"bash", "edit"}, input \in InputPool}
    \cup {ToolCallPart(tool, FALSE, NoInput) : tool \in {"bash", "edit"}}

\* the tools map of the export, as its entries in insertion order
ToolMapPool ==
    { <<>>,
      <<[name |-> "bash", enabled |-> TRUE]>>,
      <<[name |-> "edit", enabled |-> FALSE], [name |-> "bash", enabled |-> TRUE]>>,
      <<[name |-> "bash", enabled |-> TRUE], [name |-> "edit", enabled |-> TRUE],
        [name |-> "webfetch", enabled |-> TRUE]>> }

SchemaIdle ==
    /\ schemaExport = [tools |-> <<>>, parts |-> <<>>]
    /\ schemaPc = "idle"
    /\ toolEstimates = <<>>

InitSchema ==
    /\ schemaExport \in {[tools |-> tools, parts |-> parts] :
                            tools \in ToolMapPool,
                            parts \in UNION {[1..n -> ToolPartPool] : n \in 0..MaxSchemaParts}}
    /\ schemaPc = "ready"
    /\ toolEstimates = <<>>

\* result.toolEstimates = this.estimateToolSchemas(exported)
EstimateSchemas ==
    /\ schemaPc = "ready"
    /\ toolEstimates' = EstimateToolSchemas(schemaExport)
    /\ schemaPc' = "done"
    /\ UNCHANGED schemaExport
    /\ SchemaOnly
----------------------------------------------------------------------------
(* ContentCollector.collectToolOutputs, on the text of the outputs *)

\* (part.state.output ?? "").toString().trim()
OutputText(output) == IF output = Undefined THEN <<>> ELSE Trim(output)

\* a plausible slip: the output of a later call replaces the earlier ones
ReplaceToolOutput(toolOutputs, toolName, output) ==
    IF \E i \in 1..Len(toolOutputs) : toolOutputs[i].label = toolName
    THEN [i \in 1..Len(toolOutputs) |->
             IF toolOutputs[i].label = toolName
             THEN [toolOutputs[i] EXCEPT !.content = output]
             ELSE toolOutputs[i]]
    ELSE Append(toolOutputs, [label |-> toolName, content |-> output])

\* toolOutputs.set(toolName, existing + (existing ? "\n\n" : "") + output):
\* a Map keeps the position of a key it has
SetToolOutput(toolOutputs, toolName, output) ==
    IF \E i \in 1..Len(toolOutputs) : toolOutputs[i].label = toolName
    THEN [i \in 1..Len(toolOutputs) |->
             IF toolOutputs[i].label = toolName
             THEN [toolOutputs[i] EXCEPT !.content =
                      @ \o (IF @ # <<>> THEN <<"\n", "\n">> ELSE <<>>) \o output]
             ELSE toolOutputs[i]]
    ELSE Append(toolOutputs, [label |-> toolName, content |-> output])

\* collectToolOutputs over the first n parts of the transcript, the parts of
\* all messages in order
RECURSIVE CollectToolOutputTexts(_, _)
CollectToolOutputTexts(parts, n) ==
    IF n = 0 THEN <<>>
    ELSE LET toolOutputs == CollectToolOutputTexts(parts, n - 1)
             part == parts[n]
             output == OutputText(part.output)
             toolName == IF part.tool # "" THEN part.tool ELSE "tool"
         IN IF part.type # "tool" THEN toolOutputs
            ELSE IF part.status # "completed" THEN toolOutputs
            ELSE IF output = <<>> THEN toolOutputs
            ELSE SetToolOutput(toolOutputs, toolName, output)

OutputPart(type, tool, status, output) ==
    [type |-> type, tool |-> tool, status |-> status, output |-> output]

\* the parts a transcript may hold
OutputPartPool ==
    {OutputPart("tool", tool, "completed", output) :
        tool \in {"bash", "read"},
        output \in {<<"a", "b">>, <<" ", "c", " ">>, <<" ">>, <<>>}}
    \cup {OutputPart("tool", "bash", status, <<"a", "b">>) :
             status \in {"pending", "running", "error"}}
    \cup {OutputPart("tool", "bash", "completed", Undefined),
          OutputPart("tool", "", "completed", <<"a", "b">>),
          OutputPart("text", "", "", Undefined)}

CollectorIdle ==
    /\ collectorParts = <<>>
    /\ collectorPc = "idle"
    /\ collectedOutputs = <<>>

InitCollector ==
    /\ collectorParts \in UNION {[1..n -> OutputPartPool] : n \in 0..MaxCollectorParts}
    /\ collectorPc = "ready"
    /\ collectedOutputs = <<>>

\* contentCollector.collectToolOutputs(messages)
CollectToolOutputsCall ==
    /\ collectorPc = "ready"
    /\ collectedOutputs' = CollectToolOutputTexts(collectorParts, Len(collectorParts))
    /\ collectorPc' = "done"
    /\ UNCHANGED collectorParts
    /\ CollectorOnly
----------------------------------------------------------------------------
(* TokenAnalysisEngine.analyze: the five buildCategory passes of Promise.all, *)
(* each a chain of awaited countTokens calls on the one TokenizerManager      *)

PassNames == {"system", "user", "assistant", "tools", "reasoning"}

\* the sources analyze hands to each pass
PassSources(messages, c) ==
    CASE c = "system" -> CollectSystemPrompts(messages)
      [] c = "user" -> CollectMessageTexts(messages, Len(messages), "user")
      [] c = "assistant" -> CollectMessageTexts(messages, Len(messages), "assistant")
      [] c = "tools" -> CollectToolOutputs(messages, Len(messages))
      [] c = "reasoning" -> CollectReasoningTexts(messages, Len(messages))

\* what a working encoder returns for a text of the given length (any count
\* that differs from the approximation serves)
EncodedTokens(length) == length \div 3 + 1

\* a plausible slip: a placeholder that cannot encode is cached while the load runs
CacheMarkedAtLoadStart(cache) == "noEncode"

\* the cache a load leaves behind while it is in flight: untouched
CacheAtLoadStart(cache) == cache

\* entries.push({label, tokens}) if tokens > 0, then on to the next source
Counted(pass, source, tokens) ==
    [pass EXCEPT !.pc = "next", !.index = @ + 1, !.holds = "none",
                 !.entries = IF tokens > 0
                             THEN Append(@, [label |-> source.label, tokens |-> tokens])
                             ELSE @]

CurrentSource(c) == PassSources(passSetup.messages, c)[passes[c].index]

\* buildCategory from one await to the next: after the last source the sort,
\* the slice and the sum; else countTokens up to its first await (the approx
\* branch, or the cache lookup and the memoized module import of a backend)
BuildCategoryStep(c) ==
    /\ passes[c].pc = "next"
    /\ LET sources == PassSources(passSetup.messages, c)
           pass == passes[c]
       IN IF pass.index > Len(sources)
          THEN /\ passes' = [passes EXCEPT ![c].pc = "done",
                                ![c].summary =
                                    LET entries == SortByTokens(pass.entries)
                                    IN [totalTokens |-> SumTokens(entries),
                                        entries |-> Slice(entries, passSetup.entryLimit),
                                        allEntries |-> entries]]
               /\ UNCHANGED passModule
          ELSE IF passSetup.kind = "approx" \/ sources[pass.index].length = 0
          THEN /\ passes' = [passes EXCEPT ![c] =
                                Counted(pass, sources[pass.index],
                                        CeilQuarter(sources[pass.index].length))]
               /\ UNCHANGED passModule
          ELSE IF passCache # "absent"
          THEN /\ passes' = [passes EXCEPT ![c].pc = "encode", ![c].holds = passCache]
               /\ UNCHANGED passModule
          ELSE /\ passes' = [passes EXCEPT ![c].pc = "awaitModule"]
               /\ passModule' = IF passModule = "unset" THEN "pending" ELSE passModule
    /\ UNCHANGED <<passSetup, passCache, passCategories>>
    /\ PassesOnly

\* importFromVendor settles, as this backend's module does
PassModuleSettles ==
    /\ passModule = "pending"
    /\ passModule' = passSetup.module
    /\ UNCHANGED <<passSetup, passes, passCache, passCategories>>
    /\ PassesOnly

\* loadTiktokenEncoder / loadTransformersTokenizer after the module import
PassAfterModule(c) ==
    /\ passes[c].pc = "awaitModule"
    /\ passModule \notin {"unset", "pending"}
    /\ LET approx == CeilQuarter(CurrentSource(c).length)
       IN IF passSetup.kind = "transformers"
          THEN IF passModule = "rejected"
               THEN /\ passes' = [passes EXCEPT ![c].pc = "encode", ![c].holds = "null"]
                    /\ passCache' = "null"
               ELSE /\ passes' = [passes EXCEPT ![c].pc = "awaitLoad", ![c].loaded = TRUE]
                    /\ passCache' = CacheAtLoadStart(passCache)
          ELSE IF passModule = "rejected"
               THEN /\ passes' = [passes EXCEPT ![c] = Counted(passes[c], CurrentSource(c), approx)]
                    /\ UNCHANGED passCache
          ELSE IF passModule = "noGetEncoding"
               THEN /\ passes' = [passes EXCEPT ![c].pc = "encode", ![c].holds = "fallback"]
                    /\ UNCHANGED passCache
          ELSE IF passSetup.load = "throws"
               THEN /\ passes' = [passes EXCEPT ![c] =
                                     Counted([passes[c] EXCEPT !.loaded = TRUE],
                                             CurrentSource(c), approx)]
                    /\ UNCHANGED passCache
               ELSE /\ passes' = [passes EXCEPT ![c].pc = "encode", ![c].holds = "encoder",
                                                ![c].loaded = TRUE]
                    /\ passCache' = "encoder"
    /\ UNCHANGED <<passSetup, passModule, passCategories>>
    /\ PassesOnly

\* AutoTokenizer.from_pretrained(hub) settles, as this backend's loader does
PassLoadSettles(c) ==
    /\ passes[c].pc = "awaitLoad"
    /\ LET loaded == IF passSetup.load = "throws" THEN "null" ELSE passSetup.load
       IN /\ passes' = [passes EXCEPT ![c].pc = "encode", ![c].holds = loaded]
          /\ passCache' = loaded
    /\ UNCHANGED <<passSetup, passModule, passCategories>>
    /\ PassesOnly

\* countWithTiktoken / countWithTransformers once the encoder is there
PassEncode(c) ==
    /\ passes[c].pc = "encode"
    /\ LET source == CurrentSource(c)
           tokens == IF passes[c].holds \in {"encoder", "tokenizer"} /\ passSetup.encode = "ok"
                     THEN EncodedTokens(source.length)
                     ELSE CeilQuarter(source.length)
       IN passes' = [passes EXCEPT ![c] = Counted(passes[c], source, tokens)]
    /\ UNCHANGED <<passSetup, passModule, passCache, passCategories>>
    /\ PassesOnly

\* Promise.all resolves: const [system, user, assistant, tools, reasoning] = ...
PromiseAllSettles ==
    /\ \A c \in PassNames : passes[c].pc = "done"
    /\ ~passCategories.set
    /\ passCategories' = [set |-> TRUE, categories |-> [c \in PassNames |-> passes[c].summary]]
    /\ UNCHANGED <<passSetup, passes, passModule, passCache>>
    /\ PassesOnly

PassTranscripts ==
    { << EngineMsg("system", 0, "main", <<>>, "", "", 0, 0, FALSE, NoTelemetry, Missing),
         EngineMsg("user", 20, "", <<>>, "", "", 0, 0, FALSE, NoTelemetry, Missing),
         EngineMsg("assistant", 32, "", <<>>, "", "", 0, 0, TRUE, Tokens(10, 5, 0, 2, 0), 100),
         EngineMsg("assistant", 0, "", <<>>, "bash", "completed", 24, 0, TRUE, NoTelemetry, Missing) >>,
      << EngineMsg("user", 20, "", <<>>, "", "", 0, 0, FALSE, NoTelemetry, Missing),
         EngineMsg("user", 44, "", <<>>, "", "", 0, 0, FALSE, NoTelemetry, Missing),
         EngineMsg("assistant", 8, "", <<>>, "bash", "completed", 6, 0, TRUE,
                   Tokens(3, 0, 0, 1, 0), 0) >> }

\* the tokenizer spec and how its backend behaves, the same for the whole call
PassBackends ==
    {[kind |-> "approx", module |-> "resolved", load |-> "throws", encode |-> "ok"]}
    \cup {[kind |-> "transformers", module |-> m, load |-> l, encode |-> e] :
             m \in {"resolved", "rejected"}, l \in {"tokenizer", "noEncode", "throws"},
             e \in {"ok", "throws"}}
    \cup {[kind |-> "tiktoken", module |-> m, load |-> l, encode |-> e] :
             m \in {"resolved", "noGetEncoding", "rejected"}, l \in {"encoder", "throws"},
             e \in {"ok", "throws"}}

\* loaded: the pass has started an encoder load itself
IdlePass == [pc |-> "idle", index |-> 1, entries |-> <<>>, holds |-> "none", loaded |-> FALSE,
             summary |-> EmptyCategory]

NoCategories == [set |-> FALSE, categories |-> [c \in PassNames |-> EmptyCategory]]

PassesIdle ==
    /\ passSetup = [messages |-> <<>>, entryLimit |-> DEFAULT_ENTRY_LIMIT, kind |-> "approx",
                    module |-> "resolved", load |-> "throws", encode |-> "ok"]
    /\ passes = [c \in PassNames |-> IdlePass]
    /\ passModule = "unset"
    /\ passCache = "absent"
    /\ passCategories = NoCategories

\* the manager is fresh or holds this backend's encoder from an earlier call
InitPasses ==
    /\ passSetup \in {[messages |-> messages, entryLimit |-> entryLimit, kind |-> b.kind,
                       module |-> b.module, load |-> b.load, encode |-> b.encode] :
                         messages \in PassTranscripts, entryLimit \in {1},
                         b \in PassBackends}
    /\ passes = [c \in PassNames |-> [IdlePass EXCEPT !.pc = "next"]]
    /\ passModule = "unset"
    /\ passCache = "absent"
    /\ passCategories = NoCategories

----------------------------------------------------------------------------
(* Specifications, one per component *)

CostIdle ==
    /\ pricingData = SubagentCatalog
    /\ costInput = [name |-> <<>>, assistantMessageCount |-> 0, inputTokens |-> 0,
                    outputTokens |-> 0, reasoningTokens |-> 0, cacheReadTokens |-> 0,
                    cacheWriteTokens |-> 0, sessionCost |-> 0]
    /\ costPc = "idle"
    /\ costPricing = FallbackPricing
    /\ costEstimate = NoEstimate
    /\ mainCost = 0

InitSubagentSpec == InitSubagent /\ CostIdle /\ TokenizerIdle /\ ContextIdle /\ SkillIdle /\ ResolverIdle /\ EngineIdle /\ PluginIdle /\ SchemaIdle /\ CollectorIdle /\ PassesIdle

NextSubagent ==
    \/ FetchChildren
    \/ VisitChild
    \/ ReturnNested
    \/ FinishRoot

SpecSubagent == InitSubagentSpec /\ [][NextSubagent]_vars

InitCostSpec == InitCost /\ SubagentIdle /\ TokenizerIdle /\ ContextIdle /\ SkillIdle /\ ResolverIdle /\ EngineIdle /\ PluginIdle /\ SchemaIdle /\ CollectorIdle /\ PassesIdle

NextCost ==
    \/ GetPricingCall
    \/ CalculateCostCall
    \/ FormatHeadline

SpecCost == InitCostSpec /\ [][NextCost]_vars

InitTokenizerSpec == InitTokenizer /\ SubagentIdle /\ CostIdle /\ ContextIdle /\ SkillIdle /\ ResolverIdle /\ EngineIdle /\ PluginIdle /\ SchemaIdle /\ CollectorIdle /\ PassesIdle

NextTokenizer ==
    \/ \E c \in Calls : \E content \in Contents : \E model \in TokenModels :
          StartCall(c, content, model)
    \/ \E b \in {"tiktoken", "transformers"} : ModuleSettles(b)
    \/ \E c \in Calls : TiktokenAfterModule(c)
    \/ \E c \in Calls : TiktokenEncode(c)
    \/ \E c \in Calls : TransformersAfterModule(c)
    \/ \E c \in Calls : TransformersLoadSettles(c)
    \/ \E c \in Calls : TransformersEncode(c)

SpecTokenizer == InitTokenizerSpec /\ [][NextTokenizer]_vars

InitContextSpec == InitContext /\ SubagentIdle /\ CostIdle /\ TokenizerIdle /\ SkillIdle /\ ResolverIdle /\ EngineIdle /\ PluginIdle /\ SchemaIdle /\ CollectorIdle /\ PassesIdle

NextContext ==
    \/ AnalyzeContext

SpecContext == InitContextSpec /\ [][NextContext]_vars

InitSkillSpec == InitSkill /\ SubagentIdle /\ CostIdle /\ TokenizerIdle /\ ContextIdle /\ ResolverIdle /\ EngineIdle /\ PluginIdle /\ SchemaIdle /\ CollectorIdle /\ PassesIdle

NextSkill ==
    \/ AnalyzeLoadedSkills

SpecSkill == InitSkillSpec /\ [][NextSkill]_vars

InitResolverSpec == InitResolver /\ SubagentIdle /\ CostIdle /\ TokenizerIdle /\ ContextIdle /\ SkillIdle /\ EngineIdle /\ PluginIdle /\ SchemaIdle /\ CollectorIdle /\ PassesIdle

NextResolver ==
    \/ ResolveCall

SpecResolver == InitResolverSpec /\ [][NextResolver]_vars

InitEngineSpec == InitEngine /\ SubagentIdle /\ CostIdle /\ TokenizerIdle /\ ContextIdle /\ SkillIdle /\ ResolverIdle /\ PluginIdle /\ SchemaIdle /\ CollectorIdle /\ PassesIdle

NextEngine ==
    \/ AnalyzeCall

SpecEngine == InitEngineSpec /\ [][NextEngine]_vars

InitPluginSpec == InitPlugin /\ SubagentIdle /\ CostIdle /\ TokenizerIdle /\ ContextIdle /\ SkillIdle /\ ResolverIdle /\ EngineIdle /\ SchemaIdle /\ CollectorIdle /\ PassesIdle

NextPlugin ==
    \/ StartExecute
    \/ \E outcome \in MessagesOutcomes : MessagesSettle(outcome)
    \/ \E childrenOutcome, messagesOutcome \in LookupOutcomes : SubagentStep(childrenOutcome, messagesOutcome)
    \/ \E exportOutcome \in ExportOutcomes : ContextStep(exportOutcome)
    \/ \E toolListOutcome \in LookupOutcomes : SkillStep(toolListOutcome)
    \/ \E writeOutcome \in LookupOutcomes : WriteStep(writeOutcome)

SpecPlugin == InitPluginSpec /\ [][NextPlugin]_vars

InitSchemaSpec == InitSchema /\ SubagentIdle /\ CostIdle /\ TokenizerIdle /\ ContextIdle /\ SkillIdle /\ ResolverIdle /\ EngineIdle /\ PluginIdle /\ CollectorIdle /\ PassesIdle

NextSchema ==
    \/ EstimateSchemas

SpecSchema == InitSchemaSpec /\ [][NextSchema]_vars

InitCollectorSpec == InitCollector /\ SubagentIdle /\ CostIdle /\ TokenizerIdle /\ ContextIdle /\ SkillIdle /\ ResolverIdle /\ EngineIdle /\ PluginIdle /\ SchemaIdle /\ PassesIdle

NextCollector ==
    \/ CollectToolOutputsCall

SpecCollector == InitCollectorSpec /\ [][NextCollector]_vars

InitPassesSpec == InitPasses /\ SubagentIdle /\ CostIdle /\ TokenizerIdle /\ ContextIdle /\ SkillIdle /\ ResolverIdle /\ EngineIdle /\ PluginIdle /\ SchemaIdle /\ CollectorIdle

NextPasses ==
    \/ \E c \in PassNames : BuildCategoryStep(c)
    \/ PassModuleSettles
    \/ \E c \in PassNames : PassAfterModule(c)
    \/ \E c \in PassNames : PassLoadSettles(c)
    \/ \E c \in PassNames : PassEncode(c)
    \/ PromiseAllSettles

SpecPasses == InitPassesSpec /\ [][NextPasses]_vars

----------------------------------------------------------------------------
(* Claims about SubagentAnalyzer *)

ChildSet(S) == UNION {{sessionChildren[s][i] : i \in 1..Len(sessionChildren[s])} : s \in S}

RECURSIVE Closure(_)
Closure(S) == IF ChildSet(S) \subseteq S THEN S ELSE Closure(S \cup ChildSet(S))

\* every session the store lists at any depth below the root
Descendants == Closure(ChildSet({Root}))

\* the store describes a tree below the root: the root is nobody's child and
\* no descendant is listed under two sessions
IsSessionTree ==
    /\ Root \notin Descendants
    /\ \A d \in Descendants :
          Cardinality({p \in Descendants \cup {Root} : d \in ChildSet({p})}) = 1

OwnSummary(d) == AnalyzeChildSession(d, sessionMessages[d], SubagentCatalog)

WithMessages == {d \in Descendants : sessionMessages[d] # <<>>}

RECURSIVE SumOwn(_, _)
SumOwn(S, field) ==
    IF S = {} THEN 0
    ELSE LET d == CHOOSE x \in S : TRUE
         IN OwnSummary(d)[1][field] + SumOwn(S \ {d}, field)

\* C1: for a session tree whose lookups succeed, the analysis returned for
\* the root lists exactly one summary for every descendant that has at least
\* one message (also below a message-less child), each the descendant's own
\* summary, and every grand total is the sum of that field over the
\* descendants' own summaries.
C1_FlattenedTotals ==
    (subPc = "done" /\ IsSessionTree /\ lookupFault = NoFault) =>
        LET list == subResult.subagents
        IN /\ {list[i].sessionID : i \in 1..Len(list)} = WithMessages
           /\ Len(list) = Cardinality(WithMessages)
           /\ \A i \in 1..Len(list) : <<list[i]>> = OwnSummary(list[i].sessionID)
           /\ subResult.totalInputTokens = SumOwn(WithMessages, "inputTokens")
           /\ subResult.totalOutputTokens = SumOwn(WithMessages, "outputTokens")
           /\ subResult.totalReasoningTokens = SumOwn(WithMessages, "reasoningTokens")
           /\ subResult.totalCacheReadTokens = SumOwn(WithMessages, "cacheReadTokens")
           /\ subResult.totalCacheWriteTokens = SumOwn(WithMessages, "cacheWriteTokens")
           /\ subResult.totalTokens = SumOwn(WithMessages, "totalTokens")
           /\ subResult.totalApiCost = SumOwn(WithMessages, "apiCost")
           /\ subResult.totalEstimatedCost = SumOwn(WithMessages, "estimatedCost")
           /\ subResult.totalApiCalls = SumOwn(WithMessages, "assistantMessageCount")

\* a finished analysis of a tree of depth 2 whose message-less child has a
\* child with usage, next to a sibling with usage
C1_Witness ==
    /\ subPc = "done"
    /\ IsSessionTree
    /\ lookupFault = NoFault
    /\ \E c \in ChildSet({Root}) :
          /\ sessionMessages[c] = <<>>
          /\ \E g \in ChildSet({c}) : OwnSummary(g) # <<>> /\ OwnSummary(g)[1].totalTokens > 0
    /\ Len(subResult.subagents) >= 2
    /\ subResult.totalApiCost > 0

\* C2: the traversal never recurses into a session id it is already inside
\* of, so that it terminates on every finite store, cyclic ones included.
C2_NoRevisit ==
    \A i \in 1..Len(stack) : \A j \in 1..Len(stack) : i # j => stack[i].id # stack[j].id

----------------------------------------------------------------------------
(* Claims about CostCalculator *)

\* C8: the estimated session cost is the sum over the four token classes of
\* tokens/1e6 * price (output and reasoning priced together at the output
\* price), with the prices the estimate reports, and the four per-class
\* estimates add up to it.
C8_CostFormula ==
    costPc \in {"costed", "done"} =>
        /\ costEstimate.estimatedSessionCost =
              costInput.inputTokens * costEstimate.pricePerMillionInput
              + (costInput.outputTokens + costInput.reasoningTokens)
                   * costEstimate.pricePerMillionOutput
              + costInput.cacheReadTokens * costEstimate.pricePerMillionCacheRead
              + costInput.cacheWriteTokens * costEstimate.pricePerMillionCacheWrite
        /\ costEstimate.estimatedSessionCost =
              costEstimate.estimatedInputCost + costEstimate.estimatedOutputCost
              + costEstimate.estimatedCacheReadCost + costEstimate.estimatedCacheWriteCost

\* a costed analysis with tokens in all five fields and four non-zero prices
C8_Witness ==
    /\ costPc = "costed"
    /\ costInput.inputTokens > 0 /\ costInput.outputTokens > 0
    /\ costInput.reasoningTokens > 0 /\ costInput.cacheReadTokens > 0
    /\ costInput.cacheWriteTokens > 0
    /\ costEstimate.pricePerMillionCacheRead > 0
    /\ costEstimate.estimatedOutputCost > 0

\* C9: isSubscription holds exactly when there is an assistant turn, input or
\* output tokens, and a provider-reported session cost of 0; a reported cost
\* above 0 is never a subscription; the headline cost is the estimate for a
\* subscription and the reported cost otherwise.
C9_Subscription ==
    /\ costPc \in {"costed", "done"} =>
          /\ costEstimate.isSubscription <=>
                (/\ costInput.assistantMessageCount > 0
                 /\ (costInput.inputTokens > 0 \/ costInput.outputTokens > 0)
                 /\ costInput.sessionCost = 0)
          /\ costInput.sessionCost > 0 => ~costEstimate.isSubscription
    /\ costPc = "done" =>
          mainCost = (IF costEstimate.isSubscription
                      THEN costEstimate.estimatedSessionCost
                      ELSE costInput.sessionCost)

\* a subscription session whose headline is the non-zero estimate
C9_Witness ==
    /\ costPc = "done"
    /\ costEstimate.isSubscription
    /\ costInput.sessionCost = 0
    /\ mainCost > 0

\* the keys of the catalog that are a case-insensitive prefix of the stripped name
PrefixKeys(catalog, stripped) ==
    {i \in 1..Len(catalog) : StartsWith(ToLowerCase(stripped), ToLowerCase(catalog[i].key))}

\* C10: getPricing returns the entry whose key equals the name with its vendor
\* prefix stripped; failing that the entry of the longest key that is a
\* case-insensitive prefix of the name, whatever the order of the keys;
\* failing that the default entry.
C10_LongestPrefix ==
    costPc # "idle" =>
        LET stripped == LastSegment(<<"/">> \o costInput.name)
            exact == {i \in 1..Len(pricingData) : pricingData[i].key = stripped}
            hits == PrefixKeys(pricingData, stripped)
            dflt == {i \in 1..Len(pricingData) : pricingData[i].key = NameDefault}
        IN IF exact # {} THEN \E i \in exact : costPricing = pricingData[i].pricing
           ELSE IF hits # {}
                THEN \E i \in hits :
                        /\ \A j \in hits : Len(pricingData[j].key) <= Len(pricingData[i].key)
                        /\ costPricing = pricingData[i].pricing
           ELSE \A i \in dflt : costPricing = pricingData[i].pricing


----------------------------------------------------------------------------
(* Claims about TokenizerManager *)

\* C3: every countTokens call returns a non-negative integer, and a call that
\* met a backend failure (module missing, load failed, encode threw or
\* returned a malformed result) returns ceil(length/4).
C3_DegradesToApprox ==
    \A c \in Calls :
        calls[c].pc = "done" =>
            /\ calls[c].result # Missing
            /\ calls[c].result >= 0
            /\ calls[c].degraded => calls[c].result = ApproximateTokenCount(calls[c].content)

\* C4: as long as no load of a backend key has failed, at most one encoder
\* load is ever started for that key, however the calls interleave.
C4_SingleLoadPerKey ==
    \A k \in BackendKeys : ~loadFailed[k] => loadStarted[k] <= 1

\* C5: a call that starts after a load of its backend key has failed makes no
\* load attempt (no module import, no encoder construction).
C5_NoRetryAfterFailure ==
    \A c \in Calls : calls[c].lateStart => ~calls[c].attempted

----------------------------------------------------------------------------
(* Claims about ContextAnalyzer *)

BucketSum(b) ==
    b.baseSystemPrompt.tokens + b.toolDefinitions.tokens + b.environmentContext.tokens
    + b.projectTree.tokens + b.customInstructions.tokens

\* C6: in every ContextBreakdown returned, on the exact path and on the
\* estimate path, the tokens of the five buckets add up to totalCachedContext.
C6_BucketsSumToTotal ==
    ctxPc = "done" => BucketSum(contextBreakdown) = contextBreakdown.totalCachedContext

----------------------------------------------------------------------------
(* Claims about SkillAnalyzer *)

SkillNames == {"research", "review"}

AllParts == FlattenParts(skillMessages, 1, 0)

\* the completed skill-tool invocations of a name whose output is not blank,
\* as positions in the transcript's parts
Invocations(name) ==
    {i \in 1..Len(AllParts) :
        LET part == AllParts[i].part
        IN /\ part.type = "tool" /\ part.tool = "skill"
           /\ part.state.status = "completed"
           /\ ExtractSkillName(part.state) = name
           /\ ~IsBlank(part.state.output)}

FirstOutput(name) ==
    AllParts[CHOOSE i \in Invocations(name) : \A j \in Invocations(name) : i <= j].part.state.output

Entries(name) == {i \in 1..Len(loadedSkills) : loadedSkills[i].name = name}

\* C7 as stated: tokens is the token count of the first invocation's output
C7_TokensOfRawOutput ==
    skillPc = "done" =>
        \A name \in SkillNames :
            Invocations(name) # {} =>
                /\ Cardinality(Entries(name)) = 1
                /\ \A i \in Entries(name) :
                      /\ loadedSkills[i].callCount = Cardinality(Invocations(name))
                      /\ loadedSkills[i].tokens = CountTokensApprox(FirstOutput(name))
                      /\ loadedSkills[i].totalTokens =
                            loadedSkills[i].tokens * Cardinality(Invocations(name))

\* C7: a skill name with k >= 1 completed skill-tool invocations of non-blank
\* output has exactly one LoadedSkill, with callCount = k, tokens = the token
\* count of the first such output with its surrounding whitespace trimmed, and
\* totalTokens = tokens * k; totalLoadedTokens is the sum of the totalTokens.
C7_SkillMultiplier ==
    skillPc = "done" =>
        /\ \A name \in SkillNames :
              Invocations(name) # {} =>
                  /\ Cardinality(Entries(name)) = 1
                  /\ \A i \in Entries(name) :
                        /\ loadedSkills[i].callCount = Cardinality(Invocations(name))
                        /\ loadedSkills[i].tokens = CountTokensApprox(Trim(FirstOutput(name)))
                        /\ loadedSkills[i].totalTokens =
                              loadedSkills[i].tokens * Cardinality(Invocations(name))
        /\ totalLoadedTokens = SumTotals(loadedSkills)

\* a skill loaded three times, next to another skill
C7_Witness ==
    /\ skillPc = "done"
    /\ \E i \in 1..Len(loadedSkills) :
          /\ loadedSkills[i].callCount = 3
          /\ loadedSkills[i].tokens = 2
          /\ loadedSkills[i].totalTokens = 6
    /\ Len(loadedSkills) = 2

----------------------------------------------------------------------------
(* Claims about ModelResolver *)

\* the messages that carry both a provider id and a model id
BothAt ==
    {i \in 1..Len(resolverMessages) :
        Truthy(resolverMessages[i].providerID) /\ Truthy(resolverMessages[i].modelID)}

NewestBoth == CHOOSE i \in BothAt : \A j \in BothAt : j <= i

\* the provider left by the messages newer than NewestBoth: that of the
\* nearest one, from index n up, whose canonical provider id is not empty
RECURSIVE NewerProvider(_)
NewerProvider(n) ==
    IF n > Len(resolverMessages) THEN DefaultProviderID
    ELSE IF Truthy(resolverMessages[n].providerID)
            /\ Truthy(Canonicalize(resolverMessages[n].providerID))
    THEN Canonicalize(resolverMessages[n].providerID)
    ELSE NewerProvider(n + 1)

\* C11 as stated: the provider id and the model id reported are those of the
\* newest message that carries both
C11_NewestPairAsCarried ==
    (resolverPc = "done" /\ BothAt # {}) =>
        /\ resolved.providerID = resolverMessages[NewestBoth].providerID
        /\ resolved.modelID = resolverMessages[NewestBoth].modelID

\* C11: when a message carries both ids, the model id reported is that of the
\* newest such message and the provider id reported is the canonical form
\* (last "/" segment, lower case, trimmed) of its provider id; older messages
\* and newer messages with one id only do not change the pair.  When that
\* canonical form is empty, the provider reported is that of the nearest newer
\* message whose canonical provider id is not empty, else the default.
C11_NewestPair ==
    (resolverPc = "done" /\ BothAt # {}) =>
        LET info == resolverMessages[NewestBoth]
        IN /\ resolved.modelID = info.modelID
           /\ resolved.providerID =
                 IF Truthy(Canonicalize(info.providerID))
                 THEN Canonicalize(info.providerID)
                 ELSE NewerProvider(NewestBoth + 1)

\* an older pair, the newest pair, and a newer message with a provider only
C11_Witness ==
    /\ resolverPc = "done"
    /\ Len(resolverMessages) = 3
    /\ BothAt = {1, 2}
    /\ Truthy(resolverMessages[3].providerID)
    /\ resolverMessages[1].providerID # resolverMessages[2].providerID
    /\ resolverMessages[1].modelID # resolverMessages[2].modelID
    /\ Canonicalize(resolverMessages[3].providerID) # Canonicalize(resolverMessages[2].providerID)
    /\ resolved.providerID = Canonicalize(resolverMessages[2].providerID)
    /\ resolved.modelID = resolverMessages[2].modelID

\* the tokenizer spec of one pair; approx when no table matches
SpecOfPair(info) ==
    IF ResolvePair(info) = NoTokenModel THEN ApproxTokenModel.spec ELSE ResolvePair(info).spec

\* C12: the tokenizer spec returned is the one of the newest message that
\* carries both a provider id and a model id, approx when that pair matches
\* no table, whatever older messages or newer one-id messages say.
C12_TokenizerOfNewestPair ==
    (resolverPc = "done" /\ BothAt # {}) =>
        resolved.model.spec = SpecOfPair(resolverMessages[NewestBoth])

NoSpec == [kind |-> "none", key |-> <<>>]

\* the backend of one canonical pair by the stated priority: exact model
\* tables, then the provider's default, then the model-id prefix
PrioritySpec(modelID, providerID) ==
    IF Truthy(modelID) /\ modelID \in DOMAIN OPENAI_MODEL_MAP
    THEN [kind |-> "tiktoken", key |-> OPENAI_MODEL_MAP[modelID]]
    ELSE IF Truthy(modelID) /\ modelID \in DOMAIN TRANSFORMERS_MODEL_MAP
    THEN [kind |-> "transformers", key |-> TRANSFORMERS_MODEL_MAP[modelID]]
    ELSE IF providerID \in {NameOpenai, NameOpencode, NameAzure}
    THEN [kind |-> "tiktoken", key |-> MapOpenAI(modelID)]
    ELSE IF Truthy(providerID) /\ providerID \in DOMAIN PROVIDER_DEFAULTS
    THEN PROVIDER_DEFAULTS[providerID]
    ELSE IF modelID # Undefined /\ StartsWith(modelID, PrefixClaude)
    THEN [kind |-> "transformers", key |-> HubClaude]
    ELSE IF modelID # Undefined /\ StartsWith(modelID, PrefixLlama)
    THEN [kind |-> "transformers", key |-> HubLlama31]
    ELSE IF modelID # Undefined /\ StartsWith(modelID, PrefixMistral)
    THEN [kind |-> "transformers", key |-> HubMistralV3]
    ELSE IF modelID # Undefined /\ StartsWith(modelID, PrefixDeepseek)
    THEN [kind |-> "transformers", key |-> HubDeepseekV3]
    ELSE NoSpec

\* C13: for the pair of the newest message, when anything matches it, the
\* backend is chosen by priority: an exact model table irrespective of the
\* provider, else the provider's default, else the model-id prefix.
C13_PriorityOrder ==
    (resolverPc = "done" /\ Len(resolverMessages) >= 1) =>
        LET info == resolverMessages[Len(resolverMessages)]
            wanted == PrioritySpec(Canonicalize(info.modelID), Canonicalize(info.providerID))
        IN wanted # NoSpec => resolved.model.spec = wanted

----------------------------------------------------------------------------
(* Claims about TokenAnalysisEngine *)

CategoryNames == {"system", "user", "assistant", "tools", "reasoning"}

\* the sources each category is built from
SourcesOf(c) ==
    CASE c = "system" -> CollectSystemPrompts(engineMessages)
      [] c = "user" -> CollectMessageTexts(engineMessages, Len(engineMessages), "user")
      [] c = "assistant" -> CollectMessageTexts(engineMessages, Len(engineMessages), "assistant")
      [] c = "tools" -> CollectToolOutputs(engineMessages, Len(engineMessages))
      [] c = "reasoning" -> CollectReasoningTexts(engineMessages, Len(engineMessages))

\* the position of a label in the collection order of its category
SourceIndex(c, label) ==
    CHOOSE i \in 1..Len(SourcesOf(c)) : SourcesOf(c)[i].label = label

InferredInjected ==
    tokenAnalysis.categories.system.allEntries # localCategories.system.allEntries

\* C14: in each of the five category summaries returned, the inferred system
\* category included, totalTokens is the sum of the tokens of allEntries,
\* allEntries is in descending token order with equal counts in collection
\* order, and entries is its first entryLimit elements.
C14_CategorySummary ==
    enginePc = "done" =>
        \A c \in CategoryNames :
            LET cat == tokenAnalysis.categories[c]
                all == cat.allEntries
            IN /\ cat.totalTokens = SumTokens(all)
               /\ \A i, j \in 1..Len(all) : i < j => all[i].tokens >= all[j].tokens
               /\ Len(cat.entries) = (IF engineLimit < Len(all) THEN engineLimit ELSE Len(all))
               /\ \A i \in 1..Len(cat.entries) : cat.entries[i] = all[i]
               /\ (c # "system" \/ ~InferredInjected) =>
                     /\ \A i, j \in 1..Len(all) :
                           (i < j /\ all[i].tokens = all[j].tokens) =>
                               SourceIndex(c, all[i].label) < SourceIndex(c, all[j].label)
                     /\ {all[i] : i \in 1..Len(all)}
                           = {[label |-> SourcesOf(c)[k].label,
                               tokens |-> CountTokensOfLength(SourcesOf(c)[k].length)] :
                                 k \in {k \in 1..Len(SourcesOf(c)) :
                                           CountTokensOfLength(SourcesOf(c)[k].length) > 0}}
                     /\ Len(all) = Cardinality({all[i] : i \in 1..Len(all)})

\* two user texts of equal count cut to one top entry, next to an inferred
\* system category
C14_Witness ==
    /\ enginePc = "done"
    /\ InferredInjected
    /\ engineLimit = 1
    /\ Len(tokenAnalysis.categories.user.allEntries) = 2
    /\ tokenAnalysis.categories.user.allEntries[1].tokens
          = tokenAnalysis.categories.user.allEntries[2].tokens
    /\ Len(tokenAnalysis.categories.user.entries) = 1

\* the sum of one telemetry field over the assistant messages of messages[1..n]
RECURSIVE SumOverAssistants(_, _)
SumOverAssistants(field, n) ==
    IF n = 0 THEN 0
    ELSE LET m == engineMessages[n]
         IN (IF m.role = "assistant"
             THEN (IF field = "cost" THEN Num(m.cost)
                   ELSE IF m.hasTokens THEN Num(m.tokens[field]) ELSE 0)
             ELSE 0)
            + SumOverAssistants(field, n - 1)

\* C15: each session total is the sum of its telemetry field over the
\* assistant messages, a missing field counting as 0; other roles add nothing.
C15_SessionTotals ==
    enginePc = "done" =>
        LET n == Len(engineMessages)
        IN /\ tokenAnalysis.inputTokens = SumOverAssistants("input", n)
           /\ tokenAnalysis.outputTokens = SumOverAssistants("output", n)
           /\ tokenAnalysis.reasoningTokens = SumOverAssistants("reasoning", n)
           /\ tokenAnalysis.cacheReadTokens = SumOverAssistants("cacheRead", n)
           /\ tokenAnalysis.cacheWriteTokens = SumOverAssistants("cacheWrite", n)
           /\ tokenAnalysis.sessionCost = SumOverAssistants("cost", n)

\* two assistant calls, one with missing fields, and a user message that
\* carries telemetry of its own
C15_Witness ==
    /\ enginePc = "done"
    /\ \E i \in 1..Len(engineMessages) :
          engineMessages[i].role = "user" /\ engineMessages[i].hasTokens
    /\ \E i \in 1..Len(engineMessages) :
          engineMessages[i].role = "assistant" /\ engineMessages[i].tokens.output = Missing
    /\ tokenAnalysis.inputTokens = 40
    /\ tokenAnalysis.outputTokens = 5
    /\ tokenAnalysis.sessionCost = 350

\* the assistant messages with non-zero usage
WithUsage ==
    {i \in 1..Len(engineMessages) :
        /\ engineMessages[i].role = "assistant"
        /\ engineMessages[i].hasTokens
        /\ Num(engineMessages[i].tokens.input) + Num(engineMessages[i].tokens.output)
           + Num(engineMessages[i].tokens.reasoning) + Num(engineMessages[i].tokens.cacheRead)
           + Num(engineMessages[i].tokens.cacheWrite) > 0}

\* C16: the most-recent-call snapshot is the telemetry and cost of the newest
\* assistant message with non-zero usage; without one its token fields are 0.
C16_MostRecentSnapshot ==
    enginePc = "done" =>
        IF WithUsage # {}
        THEN LET m == engineMessages[CHOOSE i \in WithUsage : \A j \in WithUsage : j <= i]
             IN /\ tokenAnalysis.mostRecentInput = Num(m.tokens.input)
                /\ tokenAnalysis.mostRecentOutput = Num(m.tokens.output)
                /\ tokenAnalysis.mostRecentReasoning = Num(m.tokens.reasoning)
                /\ tokenAnalysis.mostRecentCacheRead = Num(m.tokens.cacheRead)
                /\ tokenAnalysis.mostRecentCacheWrite = Num(m.tokens.cacheWrite)
                /\ tokenAnalysis.mostRecentCost = Num(m.cost)
        ELSE /\ tokenAnalysis.mostRecentInput = 0
             /\ tokenAnalysis.mostRecentOutput = 0
             /\ tokenAnalysis.mostRecentReasoning = 0
             /\ tokenAnalysis.mostRecentCacheRead = 0
             /\ tokenAnalysis.mostRecentCacheWrite = 0

\* the newest assistant message has telemetry that is all zero, an older one
\* has usage
C16_Witness ==
    /\ enginePc = "done"
    /\ Len(engineMessages) = 3
    /\ WithUsage = {1}
    /\ engineMessages[2].role = "assistant" /\ engineMessages[2].cost # Missing
    /\ engineMessages[3].role = "assistant" /\ engineMessages[3].hasTokens
    /\ tokenAnalysis.mostRecentInput = 30
    /\ tokenAnalysis.mostRecentCost = 250

SumOfCategories ==
    tokenAnalysis.categories.system.totalTokens + tokenAnalysis.categories.user.totalTokens
    + tokenAnalysis.categories.assistant.totalTokens + tokenAnalysis.categories.tools.totalTokens
    + tokenAnalysis.categories.reasoning.totalTokens

\* recentInput + recentCacheRead - localUserTokens - localToolTokens
RecentMinusLocal ==
    tokenAnalysis.mostRecentInput + tokenAnalysis.mostRecentCacheRead
    - localCategories.user.totalTokens - localCategories.tools.totalTokens

\* C17 as stated: the inferred entry is injected whenever no system text was
\* extracted and the most recent call reports input + cacheRead > 0
C17_InjectedWheneverRecentInput ==
    enginePc = "done" =>
        /\ (/\ localCategories.system.totalTokens = 0
            /\ tokenAnalysis.mostRecentInput + tokenAnalysis.mostRecentCacheRead > 0) =>
               /\ tokenAnalysis.categories.system.totalTokens = Max(0, RecentMinusLocal)
               /\ Len(tokenAnalysis.categories.system.allEntries) = 1
               /\ tokenAnalysis.categories.system.allEntries[1].tokens = Max(0, RecentMinusLocal)
        /\ localCategories.system.totalTokens > 0 =>
               tokenAnalysis.categories.system = localCategories.system
        /\ tokenAnalysis.totalTokens = SumOfCategories

\* C17: when no system text was extracted and recentInput + recentCacheRead
\* exceeds localUserTokens + localToolTokens, the system category is that
\* difference, carried by a single synthetic entry; in every other case the
\* system category is left as computed.  totalTokens is the sum of the five
\* category totals after this step.
C17_SystemInference ==
    enginePc = "done" =>
        /\ IF localCategories.system.totalTokens = 0 /\ RecentMinusLocal > 0
           THEN /\ tokenAnalysis.categories.system.totalTokens = RecentMinusLocal
                /\ tokenAnalysis.categories.system.allEntries
                      = <<[label |-> InferredLabel, tokens |-> RecentMinusLocal]>>
                /\ tokenAnalysis.categories.system.entries
                      = tokenAnalysis.categories.system.allEntries
           ELSE tokenAnalysis.categories.system = localCategories.system
        /\ \A c \in CategoryNames \ {"system"} :
              tokenAnalysis.categories[c] = localCategories[c]
        /\ tokenAnalysis.totalTokens = SumOfCategories

\* a system count inferred next to local user and tool tokens
C17_Witness ==
    /\ enginePc = "done"
    /\ localCategories.system.totalTokens = 0
    /\ localCategories.user.totalTokens > 0
    /\ localCategories.tools.totalTokens > 0
    /\ tokenAnalysis.categories.system.totalTokens = RecentMinusLocal
    /\ tokenAnalysis.categories.system.totalTokens > 0
    /\ tokenAnalysis.totalTokens > tokenAnalysis.categories.system.totalTokens

----------------------------------------------------------------------------
(* Claims about tokenscope.execute and the analyzers' entry points *)

\* C18: execute fails towards its caller only when there is no session id or
\* the messages of the session cannot be retrieved.
C18_OnlyEntryFailures ==
    pluginPc = "rejected" => pluginError \in {"noSession", "messages"}

\* C19: a throwing external lookup (session children, child messages, tool
\* catalog, session export) never makes the analyzer's entry point reject; the
\* analyzer returns its empty result for it, and the sections of the other
\* analyzers are still produced.
C19_LookupFailuresContained ==
    /\ pluginError \notin {"subagent", "context", "skill"}
    /\ pluginPc \in {"context", "skills", "write"} =>
          /\ (pluginFaults \cap {"children", "childMessages"} # {}) =>
                pluginSections.subagent = [subagents |-> 0]
          /\ pluginConfig.includeSubagents => pluginSections.subagent # NoSection
    /\ pluginPc \in {"skills", "write"} =>
          /\ "export" \in pluginFaults => pluginSections.context = [contextBreakdown |-> FALSE]
          /\ pluginSections.context # NoSection
    /\ pluginPc = "write" =>
          /\ "toolList" \in pluginFaults =>
                pluginSections.skill = [availableSkills |-> 0, loadedSkills |-> 1]
          /\ pluginConfig.enableSkillAnalysis => pluginSections.skill # NoSection

\* the children lookup, the export and the tool catalog all failed, and the
\* call still returned its summary
C19_Witness ==
    /\ pluginPc = "returned"
    /\ pluginFaults = {"children", "export", "toolList"}
    /\ pluginSections.subagent = [subagents |-> 0]
    /\ pluginSections.skill.loadedSkills = 1

\* C20: when the session export is absent or fails, the context analysis
\* still carries a context breakdown, made by the estimate path.
C20_EstimateWhenExportFails ==
    (/\ pluginPc \in {"skills", "write", "returned"}
     /\ "export" \in pluginFaults
     /\ pluginConfig.enableContextBreakdown) =>
        pluginSections.context.contextBreakdown

----------------------------------------------------------------------------
(* Claims about the identified flag and the estimate path *)

ExportedPrompts == ExtractSystemPrompts(exported, Len(exported))

Buckets(b) ==
    {b.baseSystemPrompt, b.environmentContext, b.projectTree, b.customInstructions,
     [tokens |-> b.toolDefinitions.tokens, identified |-> b.toolDefinitions.identified]}

\* C21: the identified flag separates measured from inferred values: on the
\* estimate path all five buckets have identified = false, and on the exact
\* path no bucket that received tokens from the prompt text is left with
\* identified = false.
C21_IdentifiedSeparates ==
    ctxPc = "done" =>
        IF ExportedPrompts = <<>>
        THEN \A bucket \in Buckets(contextBreakdown) : ~bucket.identified
        ELSE \A bucket \in Buckets(contextBreakdown) : bucket.tokens > 0 => bucket.identified

----------------------------------------------------------------------------
(* Claims about TokenizerManager.countTokens *)

WhitespaceOnly(content) == \A i \in 1..Len(content) : content[i] = " "

BackendState ==
    <<tiktokenModule, transformersModule, tiktokenCache, transformerCache,
      importStarted, loadStarted, loadFailed>>

\* C22: for every tokenizer spec, countTokens on empty or whitespace-only
\* content returns 0 at once, and starts no module import, no encoder load
\* and no encode call.
C22_BlankIsZeroWithoutBackend ==
    [][\A c \in Calls :
          (calls[c].pc = "idle" /\ calls'[c].pc # "idle" /\ WhitespaceOnly(calls'[c].content)) =>
              /\ calls'[c].pc = "done"
              /\ calls'[c].result = 0
              /\ calls'[c].holds = "none"
              /\ ~calls'[c].attempted
              /\ UNCHANGED BackendState]_vars

\* whitespace-only content was counted under each of the three kinds of spec
C22_Witness ==
    /\ calls[1].pc = "done" /\ calls[1].kind = "tiktoken"
    /\ calls[1].content = <<" ", " ">> /\ calls[1].result = 0
    /\ calls[2].pc = "done" /\ calls[2].kind = "transformers"
    /\ calls[2].content = <<>> /\ calls[2].result = 0

ApproxDone == {c \in Calls : calls[c].pc = "done" /\ calls[c].kind = "approx"}

\* C23 as stated: under the approx spec countTokens(s) = ceil(length(s) / 4)
\* for all strings s, and a longer string never yields fewer tokens than a
\* shorter one.
C23_ApproxAllStrings ==
    /\ \A c \in ApproxDone : calls[c].result = CeilQuarter(Len(calls[c].content))
    /\ \A c, d \in ApproxDone :
          Len(calls[c].content) <= Len(calls[d].content) => calls[c].result <= calls[d].result

\* C23 as the code has it: under the approx spec countTokens(s) is 0 for an
\* empty or whitespace-only s and ceil(length(s) / 4) for every other s, and
\* among the strings that are not whitespace-only a longer one never yields
\* fewer tokens than a shorter one.
C23_ApproxNonBlank ==
    /\ \A c \in ApproxDone :
          calls[c].result = IF WhitespaceOnly(calls[c].content) THEN 0
                            ELSE CeilQuarter(Len(calls[c].content))
    /\ \A c, d \in ApproxDone :
          (/\ ~WhitespaceOnly(calls[c].content) /\ ~WhitespaceOnly(calls[d].content)
           /\ Len(calls[c].content) <= Len(calls[d].content)) =>
              calls[c].result <= calls[d].result

\* a string of 5 and one of 9 characters were counted: 2 and 3 tokens
C23_Witness ==
    /\ ApproxDone = Calls
    /\ Len(calls[1].content) = 5 /\ calls[1].result = 2
    /\ Len(calls[2].content) = 9 /\ calls[2].result = 3

EstimatePath == ctxPc = "done" /\ ExportedPrompts = <<>>

ExportedAssistants == {i \in 1..Len(exported) : exported[i].role = "assistant"}

\* C24 as stated: on the estimate path the total cached-context size is the
\* cache-write value of the first assistant message of the export; a later
\* assistant message's cache-write is never the total.
C24_FirstAssistantCacheWrite ==
    (EstimatePath /\ ExportedAssistants # {}) =>
        LET first == CHOOSE i \in ExportedAssistants : \A j \in ExportedAssistants : i <= j
        IN contextBreakdown.totalCachedContext = Num(exported[first].cacheWrite)

\* C24 as the code has it: on the estimate path the total is the cache-write
\* value of the first assistant message that has a non-zero cache-write (the
\* assistant messages before it have none or 0), whatever the cache-write of
\* the assistant messages after it; it is 0 when no assistant message has one.
C24_FirstNonZeroCacheWrite ==
    EstimatePath =>
        /\ \A i \in ExportedAssistants :
              (/\ Num(exported[i].cacheWrite) # 0
               /\ \A j \in ExportedAssistants : j < i => Num(exported[j].cacheWrite) = 0) =>
                  contextBreakdown.totalCachedContext = exported[i].cacheWrite
        /\ (\A i \in ExportedAssistants : Num(exported[i].cacheWrite) = 0) =>
              contextBreakdown.totalCachedContext = 0

\* two assistant messages with different cache-writes: the first one's is the total
C24_Witness ==
    /\ EstimatePath
    /\ \E i, j \in ExportedAssistants :
          /\ i < j
          /\ exported[i].cacheWrite = 100 /\ exported[j].cacheWrite = 5000
          /\ \A k \in ExportedAssistants : i <= k
    /\ contextBreakdown.totalCachedContext = 100

\* the tools of the export's tools maps with the flag the last map gives them
ToolNames == UNION {DOMAIN exported[i].tools : i \in 1..Len(exported)}

LastFlag(name) ==
    LET holders == {i \in 1..Len(exported) : name \in DOMAIN exported[i].tools}
    IN exported[CHOOSE i \in holders : \A j \in holders : i >= j].tools[name]

\* the tools enabled in the session: those of the tools maps whose flag is
\* true or, when there is no map, those the transcript calls
ToolsEnabled ==
    IF ToolNames # {} THEN {name \in ToolNames : LastFlag(name)}
    ELSE UNION {{exported[i].parts[j] : j \in 1..Len(exported[i].parts)} :
                   i \in 1..Len(exported)}

\* C25: on the estimate path toolDefinitions.toolCount is the number of tools
\* enabled in the session (a tool whose enabled flag is false is not counted)
\* and toolDefinitions.tokens is 350 times that count; with 10 enabled tools
\* and a first cache-write of 5000 the buckets are 3500 / 150 / 500 / 850.
C25_EnabledToolCount ==
    (EstimatePath /\ contextBreakdown.totalCachedContext # 0) =>
        /\ contextBreakdown.toolDefinitions.toolCount = Cardinality(ToolsEnabled)
        /\ contextBreakdown.toolDefinitions.tokens = PerToolTokens * Cardinality(ToolsEnabled)
        /\ (Cardinality(ToolsEnabled) = 10 /\ contextBreakdown.totalCachedContext = 5000) =>
              /\ contextBreakdown.toolDefinitions.tokens = 3500
              /\ contextBreakdown.environmentContext.tokens = 150
              /\ contextBreakdown.projectTree.tokens = 500
              /\ contextBreakdown.baseSystemPrompt.tokens = 850

----------------------------------------------------------------------------
(* Claims about the tool schema estimate *)

SchemaFormula(s, c) == 200 + 30 * s + 60 * c + (IF c > 0 THEN 120 ELSE 80)

\* the inputs of the observed calls of a tool
ObservedInputs(tool) ==
    {schemaExport.parts[i].input : i \in {j \in 1..Len(schemaExport.parts) :
        schemaExport.parts[j].tool = tool /\ schemaExport.parts[j].hasInput}}

ArgNamesOf(tool) == UNION {DOMAIN input : input \in ObservedInputs(tool)}

\* the argument names that hold an array or an object in some observed call
ComplexNames(tool) ==
    {name \in ArgNamesOf(tool) :
        \E input \in ObservedInputs(tool) :
            name \in DOMAIN input /\ input[name] \in {"array", "object"}}

\* C26: every tool's schema estimate is F(s, c) = 200 + 30 s + 60 c +
\* (120 if c > 0 else 80): for a tool with observed calls, s and c count the
\* scalar and the array/object argument names over all its observed calls;
\* for a tool with no observed call the estimate is the default for three
\* arguments of which one is complex, F(2, 1), with argumentCount 3 and
\* hasComplexArgs true.
C26_SchemaEstimate ==
    schemaPc = "done" =>
        \A i \in 1..Len(toolEstimates) :
            LET estimate == toolEstimates[i]
                c == Cardinality(ComplexNames(estimate.name))
                s == Cardinality(ArgNamesOf(estimate.name)) - c
            IN IF ObservedInputs(estimate.name) # {}
               THEN /\ estimate.estimatedTokens = SchemaFormula(s, c)
                    /\ estimate.argumentCount = s + c
                    /\ estimate.hasComplexArgs = (c > 0)
               ELSE /\ estimate.estimatedTokens = SchemaFormula(2, 1)
                    /\ estimate.argumentCount = 3
                    /\ estimate.hasComplexArgs

----------------------------------------------------------------------------
(* Claims about ContentCollector.collectToolOutputs *)

CompletedParts ==
    {i \in 1..Len(collectorParts) :
        collectorParts[i].type = "tool" /\ collectorParts[i].status = "completed"}

\* the completed parts of a tool name whose output is not empty
WithOutput(name) ==
    {i \in CompletedParts :
        /\ collectorParts[i].tool = name
        /\ collectorParts[i].output # Undefined /\ collectorParts[i].output # <<>>}

RECURSIVE Concatenation(_, _)
Concatenation(name, n) ==
    IF n = 0 THEN <<>>
    ELSE Concatenation(name, n - 1)
         \o (IF n \in WithOutput(name) THEN collectorParts[n].output ELSE <<>>)

OutputLabels == {collectedOutputs[i].label : i \in 1..Len(collectedOutputs)}

\* C27 as stated: collectToolOutputs returns exactly one entry per distinct
\* tool name that has a completed part with non-empty output; its content is
\* the concatenation, in transcript order, of the outputs of those parts;
\* pending, running and error parts contribute nothing.
C27_ConcatenatedOutputs ==
    collectorPc = "done" =>
        /\ OutputLabels = {collectorParts[i].tool : i \in
                              {j \in CompletedParts : WithOutput(collectorParts[j].tool) # {}}}
        /\ Cardinality(OutputLabels) = Len(collectedOutputs)
        /\ \A i \in 1..Len(collectedOutputs) :
              collectedOutputs[i].content =
                  Concatenation(collectedOutputs[i].label, Len(collectorParts))

LabelOf(part) == IF part.tool = "" THEN "tool" ELSE part.tool

\* the completed parts collected under a label whose output is not blank
WithTrimmedOutput(label) ==
    {i \in CompletedParts :
        /\ LabelOf(collectorParts[i]) = label
        /\ collectorParts[i].output # Undefined /\ ~WhitespaceOnly(collectorParts[i].output)}

RECURSIVE JoinedOutputs(_, _)
JoinedOutputs(label, n) ==
    IF n = 0 THEN <<>>
    ELSE LET before == JoinedOutputs(label, n - 1)
         IN IF n \notin WithTrimmedOutput(label) THEN before
            ELSE IF before = <<>> THEN Trim(collectorParts[n].output)
            ELSE before \o <<"\n", "\n">> \o Trim(collectorParts[n].output)

\* C27 as the code has it: exactly one entry per distinct label (the tool
\* name, "tool" for a part without one) that has a completed part whose output
\* is not empty after trimming; its content is the trimmed outputs of those
\* parts in transcript order, joined by a blank line; pending, running and
\* error parts contribute nothing.
C27_JoinedTrimmedOutputs ==
    collectorPc = "done" =>
        /\ OutputLabels = {LabelOf(collectorParts[i]) : i \in
                              {j \in CompletedParts :
                                  WithTrimmedOutput(LabelOf(collectorParts[j])) # {}}}
        /\ Cardinality(OutputLabels) = Len(collectedOutputs)
        /\ \A i \in 1..Len(collectedOutputs) :
              collectedOutputs[i].content =
                  JoinedOutputs(collectedOutputs[i].label, Len(collectorParts))

\* two completed calls of bash around a failed one were merged into one entry
C27_Witness ==
    /\ collectorPc = "done"
    /\ Cardinality(WithTrimmedOutput("bash")) = 2
    /\ \E i \in 1..Len(collectorParts) :
          collectorParts[i].tool = "bash" /\ collectorParts[i].status = "error"
    /\ Len(collectedOutputs) = 1
    /\ collectedOutputs[1].label = "bash"
    /\ collectedOutputs[1].content = <<"a", "b", "\n", "\n", "c">>

----------------------------------------------------------------------------
(* Claims about the concurrent category passes *)

\* countTokens of a text of the given length under the call's spec and backend
FixedCount(length) ==
    IF /\ passSetup.kind # "approx"
       /\ passSetup.module = "resolved"
       /\ passSetup.load \in {"encoder", "tokenizer"}
       /\ passSetup.encode = "ok"
       /\ length > 0
    THEN EncodedTokens(length)
    ELSE CeilQuarter(length)

RECURSIVE FixedEntries(_)
FixedEntries(sources) ==
    IF sources = <<>> THEN <<>>
    ELSE (IF FixedCount(Head(sources).length) > 0
          THEN <<[label |-> Head(sources).label, tokens |-> FixedCount(Head(sources).length)]>>
          ELSE <<>>)
         \o FixedEntries(Tail(sources))

\* the summary of a category when its pass runs alone
SequentialSummary(c) ==
    LET entries == SortByTokens(FixedEntries(PassSources(passSetup.messages, c)))
    IN [totalTokens |-> SumTokens(entries), entries |-> Slice(entries, passSetup.entryLimit),
        allEntries |-> entries]

\* C28: for a fixed transcript, tokenizer spec and backend behaviour, the five
\* category summaries analyze obtains are the same for every interleaving of
\* the five concurrent passes, and are those of the passes run one after
\* another, although the passes share the encoder cache.
C28_InterleavingIndependent ==
    /\ \A c \in PassNames : passes[c].pc = "done" => passes[c].summary = SequentialSummary(c)
    /\ passCategories.set =>
          passCategories.categories = [c \in PassNames |-> SequentialSummary(c)]

\* two passes missed the cache together and each loaded the tokenizer itself
C28_Witness ==
    /\ passCategories.set
    /\ passSetup.kind = "transformers" /\ passSetup.load = "tokenizer"
    /\ passSetup.encode = "ok"
    /\ Cardinality({c \in PassNames : passes[c].loaded}) >= 2
    /\ passCache = "tokenizer"
    /\ passCategories.categories.user.totalTokens = EncodedTokens(20) + EncodedTokens(44)

----------------------------------------------------------------------------
(* Claims about lookup failures in SubagentAnalyzer *)

\* the sessions the store lists at any depth below d
Below(d) == Closure(ChildSet({d}))

\* the descendants a failed lookup takes out of the analysis: the session
\* itself when its messages lookup throws, the sessions below it when its
\* children lookup throws
LostToFault ==
    IF lookupFault.kind = "messages" THEN {lookupFault.id}
    ELSE IF lookupFault.kind = "children" THEN Below(lookupFault.id)
    ELSE {}

Summarized == WithMessages \ LostToFault

\* C29: a lookup failure is local to the descendant D it concerns: when the
\* messages lookup of D throws, D gets no summary but the sessions below D are
\* still summarized; when the children lookup of D throws, D keeps its own
\* summary and only the sessions below D are omitted; the summaries and the
\* total contributions of every other descendant are unchanged.
C29_FaultIsLocal ==
    (subPc = "done" /\ IsSessionTree /\ lookupFault.id \in Descendants) =>
        LET list == subResult.subagents
        IN /\ {list[i].sessionID : i \in 1..Len(list)} = Summarized
           /\ Len(list) = Cardinality(Summarized)
           /\ \A i \in 1..Len(list) : <<list[i]>> = OwnSummary(list[i].sessionID)
           /\ subResult.totalInputTokens = SumOwn(Summarized, "inputTokens")
           /\ subResult.totalOutputTokens = SumOwn(Summarized, "outputTokens")
           /\ subResult.totalReasoningTokens = SumOwn(Summarized, "reasoningTokens")
           /\ subResult.totalCacheReadTokens = SumOwn(Summarized, "cacheReadTokens")
           /\ subResult.totalCacheWriteTokens = SumOwn(Summarized, "cacheWriteTokens")
           /\ subResult.totalTokens = SumOwn(Summarized, "totalTokens")
           /\ subResult.totalApiCost = SumOwn(Summarized, "apiCost")
           /\ subResult.totalEstimatedCost = SumOwn(Summarized, "estimatedCost")
           /\ subResult.totalApiCalls = SumOwn(Summarized, "assistantMessageCount")

\* the children lookup of a child with messages threw: it is listed, the
\* grandchild with messages below it is not, and a sibling is listed
C29_Witness ==
    /\ subPc = "done"
    /\ IsSessionTree
    /\ lookupFault.kind = "children"
    /\ lookupFault.id \in ChildSet({Root}) \cap WithMessages
    /\ Below(lookupFault.id) \cap WithMessages # {}
    /\ \E sibling \in (ChildSet({Root}) \cap WithMessages) \ {lookupFault.id} :
          \E i \in 1..Len(subResult.subagents) : subResult.subagents[i].sessionID = sibling
    /\ \E i \in 1..Len(subResult.subagents) :
          subResult.subagents[i].sessionID = lookupFault.id
    /\ Len(subResult.subagents) = 2

\* the messages lookup of a child threw: the grandchild below it is listed
C29_WitnessMessages ==
    /\ subPc = "done"
    /\ IsSessionTree
    /\ lookupFault.kind = "messages"
    /\ lookupFault.id \in ChildSet({Root}) \cap WithMessages
    /\ \E g \in Below(lookupFault.id) :
          \E i \in 1..Len(subResult.subagents) : subResult.subagents[i].sessionID = g

----------------------------------------------------------------------------
(* Claims about the most recent call and the session totals *)

\* C30: after analyze, on a transcript whose telemetry fields are not
\* negative, each field of the most recent call is at most the session total
\* of that field: input, output, reasoning, cache read, cache write and cost.
C30_RecentAtMostTotal ==
    enginePc = "done" =>
        /\ tokenAnalysis.mostRecentInput <= tokenAnalysis.inputTokens
        /\ tokenAnalysis.mostRecentOutput <= tokenAnalysis.outputTokens
        /\ tokenAnalysis.mostRecentReasoning <= tokenAnalysis.reasoningTokens
        /\ tokenAnalysis.mostRecentCacheRead <= tokenAnalysis.cacheReadTokens
        /\ tokenAnalysis.mostRecentCacheWrite <= tokenAnalysis.cacheWriteTokens
        /\ tokenAnalysis.mostRecentCost <= tokenAnalysis.sessionCost

\* several assistant calls with usage: the most recent one's share is a
\* proper part of the totals
C30_Witness ==
    /\ enginePc = "done"
    /\ tokenAnalysis.assistantMessageCount >= 2
    /\ 0 < tokenAnalysis.mostRecentInput
    /\ tokenAnalysis.mostRecentInput < tokenAnalysis.inputTokens
    /\ 0 < tokenAnalysis.mostRecentCost
    /\ tokenAnalysis.mostRecentCost < tokenAnalysis.sessionCost

====
